---- MODULE Spec2Model ----
(***************************************************************************)
(* hunter-seeker: a job-application tracker.  A relational store           *)
(* (internal/database) behind HTTP handlers (internal/handlers): create,   *)
(* update, delete, status filter, status counts and CSV import.            *)
(*                                                                         *)
(* Strings are sequences of one-character strings, so that trimming,       *)
(* lower-casing, substring search, number and date parsing are computed    *)
(* character by character as the Go code computes them.                    *)
(***************************************************************************)
EXTENDS Integers, Sequences, FiniteSets, TLC

\* ------------------------------------------------------------------ bounds
\* The largest identifier the store hands out in a run of the model.
MaxId == 2
\* The last second of the store's clock (CURRENT_TIMESTAMP counts seconds).
MaxClock == 1
\* The largest first and second numbers of the dates given to parseDate are
\* one more than these (so that days and months that do not exist are given).
MaxDay == 31
MaxMonth == 12

\* ------------------------------------------------------------- characters
Digits == <<"0", "1", "2", "3", "4", "5", "6", "7", "8", "9">>
Upper == <<"A", "B", "C", "D", "E", "F", "G", "H", "I", "J", "K", "L", "M", "N", "O", "P", "Q", "R", "S", "T", "U", "V", "W", "X", "Y", "Z">>
Lower == <<"a", "b", "c", "d", "e", "f", "g", "h", "i", "j", "k", "l", "m", "n", "o", "p", "q", "r", "s", "t", "u", "v", "w", "x", "y", "z">>

IsDigit(c) == \E i \in 1..Len(Digits) : Digits[i] = c
DigitVal(c) == (CHOOSE i \in 1..Len(Digits) : Digits[i] = c) - 1
IsUpper(c) == \E i \in 1..Len(Upper) : Upper[i] = c
IsLower(c) == \E i \in 1..Len(Lower) : Lower[i] = c
ToLowerChar(c) == IF IsUpper(c) THEN Lower[CHOOSE i \in 1..Len(Upper) : Upper[i] = c] ELSE c
\* unicode.IsSpace on the characters the model uses
IsSpace(c) == c \in {" ", "\t"}

SetMin(S) == CHOOSE x \in S : \A y \in S : x <= y
SetMax(S) == CHOOSE x \in S : \A y \in S : y <= x

\* The element of a singleton set.  A value computed once and used several
\* times is bound as x \in {value}.
Only(S) == CHOOSE x \in S : TRUE

\* s[from:] of Go, with from counted from 1
Tail2(s, from) == IF from > Len(s) THEN <<>> ELSE SubSeq(s, from, Len(s))

\* strings.ToLower
ToLower(s) == IF s = <<>> THEN <<>> ELSE [i \in 1..Len(s) |-> ToLowerChar(s[i])]

\* strings.TrimSpace
TrimSpace(s) ==
    LET keep == {i \in 1..Len(s) : ~IsSpace(s[i])}
    IN  IF keep = {} THEN <<>> ELSE SubSeq(s, SetMin(keep), SetMax(keep))

\* s[i:i+len(p)] == p
HasPrefixAt(s, i, p) == i + Len(p) - 1 <= Len(s) /\ SubSeq(s, i, i + Len(p) - 1) = p

\* strings.Contains
Contains(s, sub) == \E i \in 1..(Len(s) + 1) : HasPrefixAt(s, i, sub)

\* strconv.Atoi on an optional sign followed by decimal digits
RECURSIVE DigitsValue(_, _)
DigitsValue(s, acc) == IF s = <<>> THEN acc ELSE DigitsValue(Tail(s), acc * 10 + DigitVal(Head(s)))

AllDigits(s) == \A i \in 1..Len(s) : IsDigit(s[i])

Atoi(s) ==
    LET signed == s # <<>> /\ s[1] \in {"+", "-"}
        body == IF signed THEN Tail(s) ELSE s
    IN  IF body = <<>> \/ ~AllDigits(body)
        THEN [ok |-> FALSE, n |-> 0]
        ELSE [ok |-> TRUE,
              n |-> IF signed /\ s[1] = "-" THEN 0 - DigitsValue(body, 0) ELSE DigitsValue(body, 0)]

\* strconv.Itoa
RECURSIVE ItoaNat(_)
ItoaNat(n) == IF n < 10 THEN <<Digits[n + 1]>> ELSE ItoaNat(n \div 10) \o <<Digits[(n % 10) + 1]>>

Itoa(n) == IF n < 0 THEN <<"-">> \o ItoaNat(0 - n) ELSE ItoaNat(n)

\* ------------------------------------------------------------- time.Parse
shortMonthNames ==
    << <<"J", "a", "n">>, <<"F", "e", "b">>, <<"M", "a", "r">>, <<"A", "p", "r">>, <<"M", "a", "y">>, <<"J", "u", "n">>,
       <<"J", "u", "l">>, <<"A", "u", "g">>, <<"S", "e", "p">>, <<"O", "c", "t">>, <<"N", "o", "v">>, <<"D", "e", "c">> >>

longMonthNames ==
    << <<"J", "a", "n", "u", "a", "r", "y">>, <<"F", "e", "b", "r", "u", "a", "r", "y">>, <<"M", "a", "r", "c", "h">>, <<"A", "p", "r", "i", "l">>, <<"M", "a", "y">>, <<"J", "u", "n", "e">>,
       <<"J", "u", "l", "y">>, <<"A", "u", "g", "u", "s", "t">>, <<"S", "e", "p", "t", "e", "m", "b", "e", "r">>, <<"O", "c", "t", "o", "b", "e", "r">>, <<"N", "o", "v", "e", "m", "b", "e", "r">>, <<"D", "e", "c", "e", "m", "b", "e", "r">> >>

\* The reference-time element of a layout that starts at position i, if any:
\* "January", "Jan" (not followed by a lower-case letter), "01", "02",
\* "2006", "2", "1".  Every other character of the layouts of parseDate is
\* literal text ("Feb", "March", "Dec" name no element).
TokenAt(l, i) ==
    IF HasPrefixAt(l, i, <<"J", "a", "n", "u", "a", "r", "y">>) THEN [std |-> "stdLongMonth", len |-> 7]
    ELSE IF HasPrefixAt(l, i, <<"J", "a", "n">>) /\ ~(i + 3 <= Len(l) /\ IsLower(l[i + 3]))
         THEN [std |-> "stdMonth", len |-> 3]
    ELSE IF HasPrefixAt(l, i, <<"0", "1">>) THEN [std |-> "stdZeroMonth", len |-> 2]
    ELSE IF HasPrefixAt(l, i, <<"0", "2">>) THEN [std |-> "stdZeroDay", len |-> 2]
    ELSE IF HasPrefixAt(l, i, <<"2", "0", "0", "6">>) THEN [std |-> "stdLongYear", len |-> 4]
    ELSE IF l[i] = "2" THEN [std |-> "stdDay", len |-> 1]
    ELSE IF l[i] = "1" THEN [std |-> "stdNumMonth", len |-> 1]
    ELSE [std |-> "", len |-> 0]

\* nextStdChunk: the literal prefix, the first element and the rest
NextStdChunk(l) ==
    LET at == {i \in 1..Len(l) : TokenAt(l, i).std # ""}
    IN  IF at = {}
        THEN [prefix |-> l, std |-> "", suffix |-> <<>>]
        ELSE LET i == SetMin(at)
                 t == TokenAt(l, i)
             IN  [prefix |-> SubSeq(l, 1, i - 1), std |-> t.std, suffix |-> Tail2(l, i + t.len)]

RECURSIVE CutSpace(_)
CutSpace(s) == IF s # <<>> /\ Head(s) = " " THEN CutSpace(Tail(s)) ELSE s

\* skip: remove the literal prefix from the value; a space of the layout
\* matches a run of spaces or the end of the value
RECURSIVE Skip(_, _)
Skip(value, prefix) ==
    IF prefix = <<>> THEN [ok |-> TRUE, rest |-> value]
    ELSE IF Head(prefix) = " "
         THEN IF value # <<>> /\ Head(value) # " "
              THEN [ok |-> FALSE, rest |-> value]
              ELSE Skip(CutSpace(value), CutSpace(prefix))
    ELSE IF value = <<>> \/ Head(value) # Head(prefix)
         THEN [ok |-> FALSE, rest |-> value]
    ELSE Skip(Tail(value), Tail(prefix))

\* getnum: one or two digits (exactly two when fixed)
Getnum(s, fixed) ==
    IF s = <<>> \/ ~IsDigit(s[1]) THEN [ok |-> FALSE, n |-> 0, rest |-> s]
    ELSE IF Len(s) < 2 \/ ~IsDigit(s[2])
         THEN IF fixed THEN [ok |-> FALSE, n |-> 0, rest |-> s]
              ELSE [ok |-> TRUE, n |-> DigitVal(s[1]), rest |-> Tail(s)]
    ELSE [ok |-> TRUE, n |-> DigitVal(s[1]) * 10 + DigitVal(s[2]), rest |-> Tail2(s, 3)]

\* lookup: the first name that is a case-insensitive prefix of the value
Lookup(names, val) ==
    LET hit == {i \in 1..Len(names) :
                  /\ Len(val) >= Len(names[i])
                  /\ ToLower(SubSeq(val, 1, Len(names[i]))) = ToLower(names[i])}
    IN  IF hit = {} THEN [ok |-> FALSE, n |-> 0, rest |-> val]
        ELSE LET i == SetMin(hit)
             IN  [ok |-> TRUE, n |-> i, rest |-> Tail2(val, Len(names[i]) + 1)]

isLeap(year) == year % 4 = 0 /\ (year % 100 # 0 \/ year % 400 = 0)

daysIn(month, year) ==
    IF month = 2 THEN (IF isLeap(year) THEN 29 ELSE 28)
    ELSE IF month \in {4, 6, 9, 11} THEN 30 ELSE 31

NoTime == [ok |-> FALSE, y |-> 0, m |-> 0, d |-> 0]

\* The fields time.Parse starts from: the year 0, no month and no day seen.
ParseStart == [y |-> 0, m |-> -1, d |-> -1]

\* An end of the parse that takes any day from 1 to 31 in every month
ParseFinishAnyDay(st) ==
    LET month == IF st.m < 0 THEN 1 ELSE st.m
        day == IF st.d < 0 THEN 1 ELSE st.d
    IN  IF day < 1 \/ day > 31 THEN NoTime
        ELSE [ok |-> TRUE, y |-> st.y, m |-> month, d |-> day]

\* The end of time.Parse: an element the value did not give defaults to
\* January, or to the first day; the day must exist in the month.
ParseFinish(st) ==
    LET month == IF st.m < 0 THEN 1 ELSE st.m
        day == IF st.d < 0 THEN 1 ELSE st.d
    IN  IF day < 1 \/ day > daysIn(month, st.y) THEN NoTime
        ELSE [ok |-> TRUE, y |-> st.y, m |-> month, d |-> day]

\* One element of the layout applied to the value v that follows its literal
\* prefix: the fields read so far and the rest of the value
ParseElement(std, v, st) ==
    IF std = "stdLongYear"
    THEN IF Len(v) < 4 \/ ~AllDigits(SubSeq(v, 1, 4)) THEN [ok |-> FALSE, st |-> st, rest |-> v]
         ELSE [ok |-> TRUE, st |-> [st EXCEPT !.y = DigitsValue(SubSeq(v, 1, 4), 0)],
               rest |-> Tail2(v, 5)]
    ELSE IF std \in {"stdMonth", "stdLongMonth"}
    THEN Only({[ok |-> r.ok, st |-> [st EXCEPT !.m = r.n], rest |-> r.rest] :
               r \in {Lookup(IF std = "stdMonth" THEN shortMonthNames ELSE longMonthNames, v)}})
    ELSE IF std \in {"stdNumMonth", "stdZeroMonth"}
    THEN Only({[ok |-> r.ok /\ ~(r.n <= 0 \/ 12 < r.n), st |-> [st EXCEPT !.m = r.n], rest |-> r.rest] :
               r \in {Getnum(v, std = "stdZeroMonth")}})
    ELSE \* stdDay, stdZeroDay: any one- or two-digit day, validated at the end
         Only({[ok |-> r.ok, st |-> [st EXCEPT !.d = r.n], rest |-> r.rest] :
               r \in {Getnum(v, std = "stdZeroDay")}})

\* The loop of time.Parse over the elements of the layout
RECURSIVE ParseLoop(_, _, _)
ParseLoop(layout, value, st) ==
    Only({ IF ~sk.ok THEN NoTime
           ELSE IF ch.std = "" THEN (IF sk.rest # <<>> THEN NoTime ELSE ParseFinish(st))
           ELSE Only({ IF ~el.ok THEN NoTime ELSE ParseLoop(ch.suffix, el.rest, el.st) :
                       el \in {ParseElement(ch.std, sk.rest, st)} }) :
           ch \in {NextStdChunk(layout)}, sk \in {Skip(value, NextStdChunk(layout).prefix)} })

\* time.Parse(layout, value)
TimeParse(layout, value) == ParseLoop(layout, value, ParseStart)

\* The layout of the create and edit forms
FormLayout == <<"2", "0", "0", "6", "-", "0", "1", "-", "0", "2">>

\* The layouts of parseDate, in its order
formats ==
    << <<"2", "0", "0", "6", "-", "0", "1", "-", "0", "2">>, <<"0", "1", "/", "0", "2", "/", "2", "0", "0", "6">>, <<"1", "/", "2", "/", "2", "0", "0", "6">>, <<"0", "2", "/", "0", "1", "/", "2", "0", "0", "6">>, <<"2", "/", "1", "/", "2", "0", "0", "6">>,
       <<"2", "0", "0", "6", "/", "0", "1", "/", "0", "2">>, <<"2", "0", "0", "6", "/", "1", "/", "2">>, <<"J", "a", "n", " ", "2", ",", " ", "2", "0", "0", "6">>, <<"J", "a", "n", "u", "a", "r", "y", " ", "2", ",", " ", "2", "0", "0", "6">>, <<"2", " ", "J", "a", "n", " ", "2", "0", "0", "6">>,
       <<"2", "0", "0", "6", "-", "1", "-", "2">>, <<"J", "a", "n", " ", "2", " ", "2", "0", "0", "6">>, <<"J", "a", "n", "u", "a", "r", "y", " ", "2", " ", "2", "0", "0", "6">>, <<"F", "e", "b", " ", "2", " ", "2", "0", "0", "6">>, <<"F", "e", "b", " ", "2", "0", " ", "2", "0", "0", "6">>,
       <<"M", "a", "r", "c", "h", " ", "2", " ", "2", "0", "0", "6">>, <<"A", "p", "r", " ", "2", " ", "2", "0", "0", "6">>, <<"M", "a", "y", " ", "2", " ", "2", "0", "0", "6">>, <<"J", "u", "n", " ", "2", " ", "2", "0", "0", "6">>, <<"J", "u", "l", " ", "2", " ", "2", "0", "0", "6">>,
       <<"A", "u", "g", " ", "2", " ", "2", "0", "0", "6">>, <<"S", "e", "p", " ", "2", " ", "2", "0", "0", "6">>, <<"O", "c", "t", " ", "2", " ", "2", "0", "0", "6">>, <<"N", "o", "v", " ", "2", " ", "2", "0", "0", "6">>, <<"D", "e", "c", " ", "2", " ", "2", "0", "0", "6">> >>

\* The outcome of parseDate: a date and no error, or an error and no date
DateError(msg) == [ok |-> FALSE, err |-> msg, y |-> 0, m |-> 0, d |-> 0]
DateFound(t) == [ok |-> TRUE, err |-> "", y |-> t.y, m |-> t.m, d |-> t.d]

\* A parseDate that keeps the result of the last layout that parses the value
parseDateLastMatch(dateStr) ==
    IF dateStr = <<>> THEN DateError("date is required")
    ELSE LET hit == {i \in 1..Len(formats) : TimeParse(formats[i], dateStr).ok}
         IN  IF hit = {} THEN DateError("unrecognized date format")
             ELSE DateFound(TimeParse(formats[SetMax(hit)], dateStr))

\* parseDate: the first layout that parses the value
parseDate(dateStr) ==
    IF dateStr = <<>> THEN DateError("date is required")
    ELSE LET hit == {i \in 1..Len(formats) : TimeParse(formats[i], dateStr).ok}
         IN  IF hit = {} THEN DateError("unrecognized date format")
             ELSE DateFound(TimeParse(formats[SetMin(hit)], dateStr))


\* ------------------------------------------------------------------ state
VARIABLES
    jobs,   \* the rows of table job_applications
    seq,    \* sqlite_sequence: the largest rowid AUTOINCREMENT has handed out
    now,    \* CURRENT_TIMESTAMP, in seconds
    resp    \* the request handled last and the response it got

vars == <<jobs, seq, now, resp>>

StatusApplied == <<"A", "p", "p", "l", "i", "e", "d">>

\* The set of rowids in a table
Ids(js) == {r.id : r \in js}

\* The submitted fields of a row (models.JobApplication without ID and timestamps)
Fields(r) ==
    [date_applied |-> r.date_applied, job_title |-> r.job_title, company |-> r.company,
     status |-> r.status, job_url |-> r.job_url, notes |-> r.notes]

\* The date of a parsed time (00:00 UTC of that day)
DateOf(t) == [y |-> t.y, m |-> t.m, d |-> t.d]

\* The order of two stored dates: their text form compares as year, month, day
DateKey(dt) == dt.y * 10000 + dt.m * 100 + dt.d

\* --------------------------------------------------------------- database
\* A plain INTEGER PRIMARY KEY: one more than the largest rowid in the table
NextRowidOfTable(js, sq) == SetMax(Ids(js) \cup {0}) + 1

\* id INTEGER PRIMARY KEY AUTOINCREMENT: one more than the largest rowid
\* that was ever in the table
NextRowid(js, sq) == SetMax(Ids(js) \cup {sq}) + 1

\* An INSERT whose values are bound in the order company, job_title
CreateJobApplicationSwapped(js, sq, clk, job, fail) ==
    IF fail \/ NextRowid(js, sq) \in Ids(js)
    THEN [err |-> "failed to create job application", jobs |-> js, seq |-> sq, id |-> 0]
    ELSE LET id == NextRowid(js, sq)
             row == [id |-> id,
                     date_applied |-> job.date_applied, job_title |-> job.company,
                     company |-> job.job_title, status |-> job.status,
                     job_url |-> job.job_url, notes |-> job.notes,
                     created_at |-> clk, updated_at |-> clk]
         IN  [err |-> "", jobs |-> js \cup {row}, seq |-> id, id |-> id]

\* CreateJobApplication: INSERT the six fields; the store assigns id,
\* created_at and updated_at.  fail: the store refuses the statement.
CreateJobApplication(js, sq, clk, job, fail) ==
    IF fail \/ NextRowid(js, sq) \in Ids(js)
    THEN [err |-> "failed to create job application", jobs |-> js, seq |-> sq, id |-> 0]
    ELSE LET id == NextRowid(js, sq)
             row == [id |-> id,
                     date_applied |-> job.date_applied, job_title |-> job.job_title,
                     company |-> job.company, status |-> job.status,
                     job_url |-> job.job_url, notes |-> job.notes,
                     created_at |-> clk, updated_at |-> clk]
         IN  [err |-> "", jobs |-> js \cup {row}, seq |-> id, id |-> id]

\* GetJobApplication: SELECT ... WHERE id = ?
GetJobApplication(js, id, fail) ==
    IF fail THEN [err |-> "failed to get job application", job |-> <<>>]
    ELSE IF id \notin Ids(js) THEN [err |-> "job application not found", job |-> <<>>]
    ELSE [err |-> "", job |-> CHOOSE r \in js : r.id = id]

\* An UPDATE that leaves a column alone when the submitted value is empty
UpdateJobApplicationPatch(js, clk, job, fail) ==
    IF fail THEN [err |-> "failed to update job application", jobs |-> js]
    ELSE IF job.id \notin Ids(js) THEN [err |-> "job application not found", jobs |-> js]
    ELSE [err |-> "",
          jobs |-> {IF r.id = job.id
                    THEN [r EXCEPT !.date_applied = job.date_applied,
                                   !.job_title = IF job.job_title = <<>> THEN @ ELSE job.job_title,
                                   !.company = IF job.company = <<>> THEN @ ELSE job.company,
                                   !.status = IF job.status = <<>> THEN @ ELSE job.status,
                                   !.job_url = IF job.job_url = <<>> THEN @ ELSE job.job_url,
                                   !.notes = IF job.notes = <<>> THEN @ ELSE job.notes,
                                   !.updated_at = clk]
                    ELSE r : r \in js}]

\* An INSERT OR REPLACE in place of the UPDATE: a row that is not stored is
\* created
UpdateJobApplicationUpsert(js, clk, job, fail) ==
    IF fail THEN [err |-> "failed to update job application", jobs |-> js]
    ELSE [err |-> "",
          jobs |-> {r \in js : r.id # job.id}
                   \cup {[id |-> job.id,
                          date_applied |-> job.date_applied, job_title |-> job.job_title,
                          company |-> job.company, status |-> job.status,
                          job_url |-> job.job_url, notes |-> job.notes,
                          created_at |-> clk, updated_at |-> clk]}]

\* UpdateJobApplication: UPDATE the six fields and updated_at WHERE id = ?
UpdateJobApplication(js, clk, job, fail) ==
    IF fail THEN [err |-> "failed to update job application", jobs |-> js]
    ELSE IF job.id \notin Ids(js) THEN [err |-> "job application not found", jobs |-> js]
    ELSE [err |-> "",
          jobs |-> {IF r.id = job.id
                    THEN [r EXCEPT !.date_applied = job.date_applied,
                                   !.job_title = job.job_title, !.company = job.company,
                                   !.status = job.status, !.job_url = job.job_url,
                                   !.notes = job.notes, !.updated_at = clk]
                    ELSE r : r \in js}]

\* A delete that reports a missing row with a plain error, as
\* UpdateJobApplication does
DeleteJobApplicationPlainError(js, id, fail) ==
    IF fail THEN [err |-> "failed to delete job application", jobs |-> js]
    ELSE IF {r \in js : r.id = id} = {} THEN [err |-> "job application not found", jobs |-> js]
    ELSE [err |-> "", jobs |-> {r \in js : r.id # id}]

\* A DELETE ... WHERE id <= ?
DeleteJobApplicationUpTo(js, id, fail) ==
    IF fail THEN [err |-> "failed to delete job application", jobs |-> js]
    ELSE IF {r \in js : r.id <= id} = {} THEN [err |-> "ErrJobNotFound", jobs |-> js]
    ELSE [err |-> "", jobs |-> {r \in js : r.id > id}]

\* DeleteJobApplication: DELETE ... WHERE id = ?
DeleteJobApplication(js, id, fail) ==
    IF fail THEN [err |-> "failed to delete job application", jobs |-> js]
    ELSE IF {r \in js : r.id = id} = {} THEN [err |-> "ErrJobNotFound", jobs |-> js]
    ELSE [err |-> "", jobs |-> {r \in js : r.id # id}]

\* GetJobApplicationsByStatus and GetAllJobApplications:
\* ORDER BY date_applied DESC, created_at DESC.  SQL leaves the order of rows
\* with equal sort keys open, so a query has a set of possible results.
RECURSIVE Perms(_)
Perms(S) ==
    IF S = {} THEN {<<>>}
    ELSE UNION {{<<r>> \o p : p \in Perms(S \ {r})} : r \in S}

\* row a may come before row b
OrderBefore(a, b) ==
    \/ DateKey(a.date_applied) > DateKey(b.date_applied)
    \/ /\ DateKey(a.date_applied) = DateKey(b.date_applied)
       /\ a.created_at >= b.created_at

OrderedRows(S) ==
    {p \in Perms(S) : \A i \in 1..Len(p) : \A j \in (i + 1)..Len(p) : OrderBefore(p[i], p[j])}

GetJobApplicationsByStatus(js, status) == OrderedRows({r \in js : r.status = status})

\* A listing ordered by date_applied DESC alone
GetAllJobApplicationsByDateOnly(js) ==
    {p \in Perms(js) : \A i \in 1..Len(p) : \A j \in (i + 1)..Len(p) :
        DateKey(p[i].date_applied) >= DateKey(p[j].date_applied)}

GetAllJobApplications(js) == OrderedRows(js)

\* models.GetCommonStatuses
GetCommonStatuses ==
    << <<"A", "p", "p", "l", "i", "e", "d">>, <<"I", "n", " ", "R", "e", "v", "i", "e", "w">>, <<"P", "h", "o", "n", "e", " ", "S", "c", "r", "e", "e", "n">>, <<"I", "n", "t", "e", "r", "v", "i", "e", "w">>, <<"T", "e", "c", "h", "n", "i", "c", "a", "l", " ", "T", "e", "s", "t">>,
       <<"O", "f", "f", "e", "r">>, <<"R", "e", "j", "e", "c", "t", "e", "d">>, <<"W", "i", "t", "h", "d", "r", "a", "w", "n">>, <<"N", "o", " ", "R", "e", "s", "p", "o", "n", "s", "e">> >>

\* Counts that list every common status, with 0 for a status no row has
GetStatusCountsWithCommon(js) ==
    LET groups == {r.status : r \in js} \cup {GetCommonStatuses[i] : i \in 1..Len(GetCommonStatuses)}
    IN  [s \in groups |-> Cardinality({r \in js : r.status = s})]

\* Counts that leave out the rows with an empty status
GetStatusCountsNonEmpty(js) ==
    LET groups == {r.status : r \in js} \ {<<>>}
    IN  [s \in groups |-> Cardinality({r \in js : r.status = s})]

\* GetStatusCounts: SELECT status, COUNT(*) ... GROUP BY status, read into a map
GetStatusCounts(js) ==
    LET groups == {r.status : r \in js}
    IN  [s \in groups |-> Cardinality({r \in js : r.status = s})]

\* ------------------------------------------------------------- CSV import
\* csv.Reader splits a line at its commas (the files of the model hold no
\* quotes, so no field is quoted)
RECURSIVE SplitComma(_, _)
SplitComma(line, field) ==
    IF line = <<>> THEN <<field>>
    ELSE IF Head(line) = "," THEN <<field>> \o SplitComma(Tail(line), <<>>)
    ELSE SplitComma(Tail(line), Append(field, Head(line)))

RECURSIVE ReadRecords(_)
ReadRecords(lines) ==
    IF lines = <<>> THEN <<>>
    ELSE IF Head(lines) = <<>> THEN ReadRecords(Tail(lines))   \* an empty line is skipped
    ELSE <<SplitComma(Head(lines), <<>>)>> \o ReadRecords(Tail(lines))

\* csv.Reader.ReadAll with FieldsPerRecord = 0: every record must have the
\* number of fields of the first one (ErrFieldCount otherwise)
ReadAll(file) ==
    LET records == ReadRecords(file)
    IN  IF \E i \in 1..Len(records) : Len(records[i]) # Len(records[1])
        THEN [ok |-> FALSE, records |-> <<>>]
        ELSE [ok |-> TRUE, records |-> records]

\* The uploaded files, each a sequence of lines
Files ==
    { << <<"D", "a", "t", "e", " ", "A", "p", "p", "l", "i", "e", "d", ",", "J", "o", "b", " ", "T", "i", "t", "l", "e", ",", "C", "o", "m", "p", "a", "n", "y">>,
         <<"2", "0", "2", "4", "-", "0", "1", "-", "1", "5", ",", "E", "n", "g", ",", "A", "c", "m", "e">>,
         <<"1", "3", "/", "4", "5", "/", "2", "0", "2", "4", ",", "D", "e", "v", ",", "I", "n", "i", "t">>,
         <<"2", "0", "2", "4", "-", "0", "2", "-", "0", "1", ",", "D", "e", "v", ",", "I", "n", "i", "t">> >>,
      << <<"2", "0", "2", "4", "-", "0", "1", "-", "1", "5", ",", "E", "n", "g", ",", "A", "c", "m", "e", ",", "I", "n", "t", "e", "r", "v", "i", "e", "w", ",", "u", ",", "n">>,
         <<" ", "2", "0", "2", "4", "-", "0", "1", "-", "1", "5", " ", ",", " ", "D", "e", "v", " ", ",", "I", "n", "i", "t", ",", " ", ",", ",">>,
         <<"1", "/", "1", "5", "/", "2", "0", "2", "4", ",", "E", "n", "g", ",", " ", ",", "A", "p", "p", "l", "i", "e", "d", ",", ",">>,
         <<"J", "a", "n", " ", "1", "5", " ", "2", "0", "2", "4", ",", ",", "A", "c", "m", "e", ",", ",", ",">> >>,
      << <<"2", "0", "2", "4", "-", "0", "1", "-", "1", "5", ",", "E", "n", "g", ",", "A", "c", "m", "e">>,
         <<"D", "e", "v", ",", "I", "n", "i", "t">> >>,
      << <<"a", ",", "b">>,
         <<>>,
         <<"2", "0", "2", "4", "-", "0", "1", "-", "1", "5", ",", "c">> >>,
      << <<"2", "0", "2", "4", "-", "0", "2", "-", "0", "1", ",", "D", "e", "v", ",", "I", "n", "i", "t", ",", " ", "O", "n", " ", "h", "o", "l", "d", " ">> >>,
      << <<"2", "0", "2", "4", "-", "0", "1", "-", "1", "5", ",", "E", "n", "g", ",", "A", "c", "m", "e">>,
         <<" ">>,
         <<"2", "0", "2", "4", "-", "0", "2", "-", "0", "1", ",", "D", "e", "v", ",", "I", "n", "i", "t">> >>,
      << <<" ">> >>,
      << <<" ">>,
         <<"x">> >>,
      << >>,
      << <<>> >> }

\* The files as csv.Reader reads them, and the dates of their first columns
\* as parseDate reads them, computed once
\* First columns of rows for the uploads that try the header test: column
\* titles, words that hold a keyword inside, dates of several layouts and
\* other text
FirstColumns ==
    { <<"D", "a", "t", "e">>, <<"d", "a", "t", "e", " ", "a", "p", "p", "l", "i", "e", "d">>, <<"J", "o", "b", " ", "T", "i", "t", "l", "e">>, <<"C", "O", "M", "P", "A", "N", "Y">>, <<"P", "o", "s", "i", "t", "i", "o", "n">>, <<"r", "o", "l", "e">>,
      <<"U", "p", "d", "a", "t", "e", " ", "2", "0", "2", "4">>, <<"C", "a", "n", "d", "i", "d", "a", "t", "e">>, <<"A", "p", "p", "l", "i", "e", "d", " ", "O", "n">>, <<"W", "h", "e", "n">>,
      <<"2", "0", "2", "4", "-", "0", "1", "-", "1", "5">>, <<"1", "/", "1", "5", "/", "2", "0", "2", "4">>, <<"1", "5", "/", "0", "1", "/", "2", "0", "2", "4">>, <<"2", "0", "2", "4", "/", "1", "/", "1", "5">>, <<" ", "2", "0", "2", "4", "-", "0", "1", "-", "1", "5", " ">>,
      <<"J", "a", "n", " ", "1", "5", ",", " ", "2", "0", "2", "4">>, <<"J", "a", "n", "u", "a", "r", "y", " ", "1", "5", ",", " ", "2", "0", "2", "4">>, <<"1", "5", " ", "J", "a", "n", " ", "2", "0", "2", "4">>, <<"j", "a", "n", " ", "1", "5", " ", "2", "0", "2", "4">>,
      <<"F", "e", "b", " ", "2", "0", " ", "2", "0", "2", "4">>, <<"M", "a", "r", "c", "h", " ", "2", " ", "2", "0", "2", "4">>, <<"M", "a", "y", " ", "2", " ", "2", "0", "2", "4">>, <<"O", "c", "t", " ", "2", " ", "2", "0", "2", "4">>, <<"D", "e", "c", " ", "2", " ", "2", "0", "2", "4">> }

DataLine == <<"2", "0", "2", "4", "-", "0", "3", "-", "0", "1", ",", "O", "p", "s", ",", "C", "o", "r", "p">>

\* Uploads of one or two rows with those first columns, before and after a
\* data row
HeaderFiles ==
    UNION {{ << col \o <<",", "E", "n", "g", ",", "A", "c", "m", "e">> >>,
             << col \o <<",", "E", "n", "g", ",", "A", "c", "m", "e">>, DataLine >>,
             << DataLine, col \o <<",", "E", "n", "g", ",", "A", "c", "m", "e">> >> } : col \in FirstColumns}

FileRecords == [f \in Files \cup HeaderFiles |-> ReadAll(f)]
AllRecords == UNION {{FileRecords[f].records[i] : i \in 1..Len(FileRecords[f].records)} : f \in DOMAIN FileRecords}
FileDate == [d \in {TrimSpace(rec[1]) : rec \in AllRecords} |-> parseDate(d)]

headerKeywords == << <<"d", "a", "t", "e">>, <<"j", "o", "b">>, <<"t", "i", "t", "l", "e">>, <<"c", "o", "m", "p", "a", "n", "y">>, <<"p", "o", "s", "i", "t", "i", "o", "n">>, <<"r", "o", "l", "e">> >>

\* A header test that compares the first column as written
isHeaderRowCaseSensitive(record) ==
    IF Len(record) = 0 THEN FALSE
    ELSE LET firstCol == TrimSpace(record[1])
         IN  \E k \in 1..Len(headerKeywords) : Contains(firstCol, headerKeywords[k])

\* A header test that takes every first column that does not start with a
\* digit for a column title
isHeaderRowNoLeadingDigit(record) ==
    IF Len(record) = 0 THEN FALSE
    ELSE LET firstCol == ToLower(TrimSpace(record[1]))
         IN  firstCol # <<>> /\ ~IsDigit(Head(firstCol))

isHeaderRow(record) ==
    IF Len(record) = 0 THEN FALSE
    ELSE LET firstCol == ToLower(TrimSpace(record[1]))
         IN  \E k \in 1..Len(headerKeywords) : Contains(firstCol, headerKeywords[k])

NoJob == <<>>

\* A parseCSVRecord that reads the notes from column 5 and the URL from column 6
parseCSVRecordSwapped(record) ==
    IF Len(record) < 3 THEN [ok |-> FALSE, err |-> "insufficient columns", job |-> NoJob]
    ELSE LET dateStr == TrimSpace(record[1])
             t == FileDate[dateStr]
             jobTitle == TrimSpace(record[2])
             company == TrimSpace(record[3])
         IN  IF ~t.ok THEN [ok |-> FALSE, err |-> "invalid date format", job |-> NoJob]
             ELSE IF jobTitle = <<>> THEN [ok |-> FALSE, err |-> "job title is required", job |-> NoJob]
             ELSE IF company = <<>> THEN [ok |-> FALSE, err |-> "company is required", job |-> NoJob]
             ELSE [ok |-> TRUE, err |-> "",
                   job |-> [date_applied |-> DateOf(t), job_title |-> jobTitle, company |-> company,
                            status |-> IF Len(record) > 3 /\ TrimSpace(record[4]) # <<>>
                                       THEN TrimSpace(record[4]) ELSE StatusApplied,
                            job_url |-> IF Len(record) > 5 THEN TrimSpace(record[6]) ELSE <<>>,
                            notes |-> IF Len(record) > 4 THEN TrimSpace(record[5]) ELSE <<>>]]

parseCSVRecord(record) ==
    IF Len(record) < 3 THEN [ok |-> FALSE, err |-> "insufficient columns", job |-> NoJob]
    ELSE LET dateStr == TrimSpace(record[1])
             t == FileDate[dateStr]
             jobTitle == TrimSpace(record[2])
             company == TrimSpace(record[3])
         IN  IF ~t.ok THEN [ok |-> FALSE, err |-> "invalid date format", job |-> NoJob]
             ELSE IF jobTitle = <<>> THEN [ok |-> FALSE, err |-> "job title is required", job |-> NoJob]
             ELSE IF company = <<>> THEN [ok |-> FALSE, err |-> "company is required", job |-> NoJob]
             ELSE [ok |-> TRUE, err |-> "",
                   job |-> [date_applied |-> DateOf(t), job_title |-> jobTitle, company |-> company,
                            status |-> IF Len(record) > 3 /\ TrimSpace(record[4]) # <<>>
                                       THEN TrimSpace(record[4]) ELSE StatusApplied,
                            job_url |-> IF Len(record) > 4 THEN TrimSpace(record[5]) ELSE <<>>,
                            notes |-> IF Len(record) > 5 THEN TrimSpace(record[6]) ELSE <<>>]]

\* --------------------------------------------------------------- requests
\* A form as r.FormValue reads it: an absent field reads as the empty string.
Form(date, title, company, status, url, notes) ==
    [date_applied |-> date, job_title |-> title, company |-> company,
     status |-> status, job_url |-> url, notes |-> notes]

Forms ==
    { Form(<<"2", "0", "2", "4", "-", "0", "1", "-", "1", "5">>, <<"E", "n", "g">>, <<"A", "c", "m", "e">>, <<"I", "n", "t", "e", "r", "v", "i", "e", "w">>, <<"u">>, <<"n">>),
      Form(<<"2", "0", "2", "4", "-", "0", "2", "-", "0", "1">>, <<"D", "e", "v">>, <<"I", "n", "i", "t">>, <<"I", "n", "t", "e", "r", "v", "i", "e", "w">>, <<>>, <<>>),
      Form(<<"2", "0", "2", "4", "-", "0", "1", "-", "1", "5">>, <<>>, <<>>, <<>>, <<>>, <<>>),
      Form(<<"1", "5", "/", "0", "1", "/", "2", "0", "2", "4">>, <<"E", "n", "g">>, <<"A", "c", "m", "e">>, <<"A", "p", "p", "l", "i", "e", "d">>, <<>>, <<>>),
      Form(<<"2", "0", "2", "4", "-", "0", "2", "-", "3", "0">>, <<"E", "n", "g">>, <<"A", "c", "m", "e">>, <<"A", "p", "p", "l", "i", "e", "d">>, <<>>, <<>>) }

\* The {id} segments of the paths: every identifier of the run, one more,
\* a signed number and a word
IdSegments == {Itoa(i) : i \in 1..(MaxId + 1)} \cup { <<"+", "1">>, <<"x">> }

\* The status parameters of GET /filter
FilterStatuses == { <<>>, StatusApplied, <<"I", "n", "t", "e", "r", "v", "i", "e", "w">> }

\* The conversions of the forms, path segments and records, computed once
FormDate == [d \in {f.date_applied : f \in Forms} |-> TimeParse(FormLayout, d)]
SegmentId == [s \in IdSegments |-> Atoi(s)]
RecordJob == [rec \in AllRecords |-> parseCSVRecord(rec)]
RecordIsHeader == [rec \in AllRecords |-> isHeaderRow(rec)]

Response(op, code, loc, body, req) ==
    [op |-> op, code |-> code, loc |-> loc, body |-> body, req |-> req]

NoResponse == Response("none", 0, <<>>, <<>>, <<>>)

\* The server is between two requests
Idle == resp.op = "none"

Init ==
    /\ jobs = {}
    /\ seq = 0
    /\ now = 0
    /\ resp = NoResponse

\* A second passes
Tick ==
    /\ Idle
    /\ now < MaxClock
    /\ now' = now + 1
    /\ UNCHANGED <<jobs, seq, resp>>

\* The response was sent; the server waits for the next request
Respond ==
    /\ ~Idle
    /\ resp' = NoResponse
    /\ UNCHANGED <<jobs, seq, now>>

\* POST /create
CreateJobHandler(form, fail) ==
    LET t == FormDate[form.date_applied]
        job == [form EXCEPT !.date_applied = DateOf(t)]
        res == CreateJobApplication(jobs, seq, now, job, fail)
        req == [form |-> form, fail |-> fail]
    IN  /\ Idle
        /\ seq < MaxId
        /\ IF ~t.ok
           THEN /\ resp' = Response("create", 400, <<>>, "Invalid date format", req)
                /\ UNCHANGED <<jobs, seq>>
           ELSE IF res.err # ""
           THEN /\ resp' = Response("create", 500, <<>>, "Failed to create job application", req)
                /\ UNCHANGED <<jobs, seq>>
           ELSE /\ resp' = Response("create", 303, <<"/">>, <<>>, req)
                /\ jobs' = res.jobs
                /\ seq' = res.seq
        /\ UNCHANGED now

\* POST /update/{id}
UpdateJobHandler(seg, form, fail) ==
    LET id == SegmentId[seg]
        t == FormDate[form.date_applied]
        job == [id |-> id.n] @@ [form EXCEPT !.date_applied = DateOf(t)]
        res == UpdateJobApplication(jobs, now, job, fail)
        req == [id |-> seg, form |-> form, fail |-> fail]
    IN  /\ Idle
        /\ IF ~id.ok
           THEN /\ resp' = Response("update", 400, <<>>, "Invalid job ID", req)
                /\ UNCHANGED jobs
           ELSE IF ~t.ok
           THEN /\ resp' = Response("update", 400, <<>>, "Invalid date format", req)
                /\ UNCHANGED jobs
           ELSE IF res.err # ""
           THEN /\ resp' = Response("update", 500, <<>>, "Failed to update job application", req)
                /\ UNCHANGED jobs
           ELSE /\ resp' = Response("update", 303, <<"/">>, <<>>, req)
                /\ jobs' = res.jobs
        /\ UNCHANGED <<seq, now>>

\* POST /delete/{id}
DeleteJobHandler(seg, fail) ==
    LET id == SegmentId[seg]
        res == DeleteJobApplication(jobs, id.n, fail)
        req == [id |-> seg, fail |-> fail]
    IN  /\ Idle
        /\ IF ~id.ok
           THEN /\ resp' = Response("delete", 400, <<>>, "Invalid job ID", req)
                /\ UNCHANGED jobs
           ELSE IF res.err = "ErrJobNotFound"
           THEN /\ resp' = Response("delete", 303, <<"/", "?", "e", "r", "r", "o", "r", "=", "n", "o", "t", "f", "o", "u", "n", "d", "&", "i", "d", "=">> \o Itoa(id.n), <<>>, req)
                /\ UNCHANGED jobs
           ELSE IF res.err # ""
           THEN /\ resp' = Response("delete", 303, <<"/", "?", "e", "r", "r", "o", "r", "=", "d", "e", "l", "e", "t", "e">>, <<>>, req)
                /\ UNCHANGED jobs
           ELSE /\ resp' = Response("delete", 303, <<"/", "?", "s", "u", "c", "c", "e", "s", "s", "=", "d", "e", "l", "e", "t", "e", "d">>, <<>>, req)
                /\ jobs' = res.jobs
        /\ UNCHANGED <<seq, now>>

\* GET /edit/{id}
EditJobHandler(seg, fail) ==
    LET id == SegmentId[seg]
        res == GetJobApplication(jobs, id.n, fail)
        req == [id |-> seg, fail |-> fail]
    IN  /\ Idle
        /\ IF ~id.ok
           THEN resp' = Response("edit", 400, <<>>, "Invalid job ID", req)
           ELSE IF res.err # ""
           THEN resp' = Response("edit", 404, <<>>, "Job application not found", req)
           ELSE resp' = Response("edit", 200, <<>>, res.job, req)
        /\ UNCHANGED <<jobs, seq, now>>

\* GetTotalJobApplicationCount: SELECT COUNT(*) FROM job_applications
GetTotalJobApplicationCount(js) == Cardinality(js)

\* The store calls of the list pages that may fail
HomeCalls == {"jobs", "counts", "total"}

\* A filter page that asks the store for the status also when it is empty
FilterHandlerAlwaysByStatus(status, fails) ==
    LET req == [status |-> status, fails |-> fails]
    IN  /\ Idle
        /\ IF "jobs" \in fails
           THEN resp' = Response("filter", 500, <<>>, "Internal server error", req)
           ELSE \E rows \in GetJobApplicationsByStatus(jobs, status) :
                    resp' = Response("filter", 200, <<>>,
                                     [Jobs |-> rows,
                                      StatusCounts |-> IF "counts" \in fails THEN <<>>
                                                       ELSE GetStatusCounts(jobs),
                                      TotalCount |-> IF "total" \in fails THEN 0
                                                     ELSE GetTotalJobApplicationCount(jobs)], req)
        /\ UNCHANGED <<jobs, seq, now>>

\* GET /filter?status=; fails: the store calls that fail
FilterHandler(status, fails) ==
    LET req == [status |-> status, fails |-> fails]
    IN  /\ Idle
        /\ IF "jobs" \in fails
           THEN resp' = Response("filter", 500, <<>>, "Internal server error", req)
           ELSE \E rows \in (IF status # <<>> THEN GetJobApplicationsByStatus(jobs, status)
                                              ELSE GetAllJobApplications(jobs)) :
                    resp' = Response("filter", 200, <<>>,
                                     [Jobs |-> rows,
                                      StatusCounts |-> IF "counts" \in fails THEN <<>>
                                                       ELSE GetStatusCounts(jobs),
                                      TotalCount |-> IF "total" \in fails THEN 0
                                                     ELSE GetTotalJobApplicationCount(jobs)], req)
        /\ UNCHANGED <<jobs, seq, now>>

\* GET /api/stats
StatsHandler(fail) ==
    /\ Idle
    /\ IF fail
       THEN resp' = Response("stats", 500, <<>>, "Internal server error", [fail |-> fail])
       ELSE resp' = Response("stats", 200, <<>>, GetStatusCounts(jobs), [fail |-> fail])
    /\ UNCHANGED <<jobs, seq, now>>

\* A turn of the loop that reports the index i itself as the row number
ImportRowZeroBased(record, i, fail, clk, acc) ==
    IF Len(record) = 0 \/ (Len(record) = 1 /\ TrimSpace(record[1]) = <<>>)
    THEN acc
    ELSE IF ~RecordJob[record].ok
    THEN [acc EXCEPT !.errorCount = @ + 1,
                     !.errors = Append(@, [row |-> i, msg |-> RecordJob[record].err])]
    ELSE Only({ IF res.err # ""
                THEN [acc EXCEPT !.errorCount = @ + 1,
                                 !.errors = Append(@, [row |-> i, msg |-> "Failed to save"])]
                ELSE [acc EXCEPT !.successCount = @ + 1, !.jobs = res.jobs, !.seq = res.seq] :
                res \in {CreateJobApplication(acc.jobs, acc.seq, clk, RecordJob[record].job, fail)} })

\* A turn of the loop that counts a skipped row as an error
ImportRowCountsBlank(record, i, fail, clk, acc) ==
    IF Len(record) = 0 \/ (Len(record) = 1 /\ TrimSpace(record[1]) = <<>>)
    THEN [acc EXCEPT !.errorCount = @ + 1]
    ELSE IF ~RecordJob[record].ok
    THEN [acc EXCEPT !.errorCount = @ + 1,
                     !.errors = Append(@, [row |-> i + 1, msg |-> RecordJob[record].err])]
    ELSE Only({ IF res.err # ""
                THEN [acc EXCEPT !.errorCount = @ + 1,
                                 !.errors = Append(@, [row |-> i + 1, msg |-> "Failed to save"])]
                ELSE [acc EXCEPT !.successCount = @ + 1, !.jobs = res.jobs, !.seq = res.seq] :
                res \in {CreateJobApplication(acc.jobs, acc.seq, clk, RecordJob[record].job, fail)} })

\* One turn of the loop of ProcessCSVHandler, on records[i] with i counted
\* from 0 as in the code; fail: the store refuses the row's INSERT
ImportRow(record, i, fail, clk, acc) ==
    IF Len(record) = 0 \/ (Len(record) = 1 /\ TrimSpace(record[1]) = <<>>)
    THEN acc
    ELSE IF ~RecordJob[record].ok
    THEN [acc EXCEPT !.errorCount = @ + 1,
                     !.errors = Append(@, [row |-> i + 1, msg |-> RecordJob[record].err])]
    ELSE Only({ IF res.err # ""
                THEN [acc EXCEPT !.errorCount = @ + 1,
                                 !.errors = Append(@, [row |-> i + 1, msg |-> "Failed to save"])]
                ELSE [acc EXCEPT !.successCount = @ + 1, !.jobs = res.jobs, !.seq = res.seq] :
                res \in {CreateJobApplication(acc.jobs, acc.seq, clk, RecordJob[record].job, fail)} })

\* for i := startIdx; i < len(records); i++
RECURSIVE ImportRows(_, _, _, _, _)
ImportRows(records, i, failRows, clk, acc) ==
    IF i >= Len(records) THEN acc
    ELSE Only({ ImportRows(records, i + 1, failRows, clk, a) :
                a \in {ImportRow(records[i + 1], i, i \in failRows, clk, acc)} })

\* An import in one transaction, rolled back when a row fails
ProcessCSVHandlerRollback(file, failRows) ==
    LET read == FileRecords[file]
        records == read.records
        startIdx == IF Len(records) > 0 /\ RecordIsHeader[records[1]] THEN 1 ELSE 0
        res == ImportRows(records, startIdx, failRows, now,
                          [jobs |-> jobs, seq |-> seq, successCount |-> 0, errorCount |-> 0,
                           errors |-> <<>>])
        req == [file |-> file, failRows |-> failRows]
    IN  /\ Idle
        /\ IF ~read.ok
           THEN /\ resp' = Response("process-csv", 400, <<>>, "Failed to parse CSV file", req)
                /\ UNCHANGED <<jobs, seq>>
           ELSE IF Len(records) = 0
           THEN /\ resp' = Response("process-csv", 400, <<>>, "CSV file is empty", req)
                /\ UNCHANGED <<jobs, seq>>
           ELSE /\ res.seq <= MaxId
                /\ resp' = Response("process-csv", 200, <<>>,
                                    [SuccessCount |-> res.successCount, ErrorCount |-> res.errorCount,
                                     Errors |-> res.errors, TotalRows |-> Len(records) - startIdx], req)
                /\ jobs' = IF res.errorCount > 0 THEN jobs ELSE res.jobs
                /\ seq' = res.seq
        /\ UNCHANGED now

\* POST /process-csv
ProcessCSVHandler(file, failRows) ==
    LET read == FileRecords[file]
        records == read.records
        startIdx == IF Len(records) > 0 /\ RecordIsHeader[records[1]] THEN 1 ELSE 0
        res == ImportRows(records, startIdx, failRows, now,
                          [jobs |-> jobs, seq |-> seq, successCount |-> 0, errorCount |-> 0,
                           errors |-> <<>>])
        req == [file |-> file, failRows |-> failRows]
    IN  /\ Idle
        /\ IF ~read.ok
           THEN /\ resp' = Response("process-csv", 400, <<>>, "Failed to parse CSV file", req)
                /\ UNCHANGED <<jobs, seq>>
           ELSE IF Len(records) = 0
           THEN /\ resp' = Response("process-csv", 400, <<>>, "CSV file is empty", req)
                /\ UNCHANGED <<jobs, seq>>
           ELSE /\ res.seq <= MaxId
                /\ resp' = Response("process-csv", 200, <<>>,
                                    [SuccessCount |-> res.successCount, ErrorCount |-> res.errorCount,
                                     Errors |-> res.errors, TotalRows |-> Len(records) - startIdx], req)
                /\ jobs' = res.jobs
                /\ seq' = res.seq
        /\ UNCHANGED now

Next ==
    \/ Tick
    \/ Respond
    \/ \E form \in Forms, fail \in BOOLEAN : CreateJobHandler(form, fail)
    \/ \E seg \in IdSegments, form \in Forms, fail \in BOOLEAN : UpdateJobHandler(seg, form, fail)
    \/ \E seg \in IdSegments, fail \in BOOLEAN : DeleteJobHandler(seg, fail)
    \/ \E seg \in IdSegments, fail \in BOOLEAN : EditJobHandler(seg, fail)
    \/ \E status \in FilterStatuses, fails \in SUBSET HomeCalls : FilterHandler(status, fails)
    \/ \E fail \in BOOLEAN : StatsHandler(fail)
    \/ \E file \in Files : \E failRows \in SUBSET (0..(Len(file) - 1)) : ProcessCSVHandler(file, failRows)

Spec == Init /\ [][Next]_vars


\* ------------------------------------------------------------------ router
\* The segments of a path after its leading "/"
RECURSIVE SplitSlash(_, _)
SplitSlash(path, segment) ==
    IF path = <<>> THEN <<segment>>
    ELSE IF Head(path) = "/" THEN <<segment>> \o SplitSlash(Tail(path), <<>>)
    ELSE SplitSlash(Tail(path), Append(segment, Head(path)))

PathSegments(path) == SplitSlash(Tail(path), <<>>)

\* A segment of a route template written {name} is a variable
IsVariable(segment) == segment # <<>> /\ Head(segment) = "{" /\ segment[Len(segment)] = "}"

\* mux: the template matches the path segment by segment; a variable
\* matches any segment that is not empty
MatchPath(template, path) ==
    LET t == PathSegments(template)
        p == PathSegments(path)
    IN  /\ path # <<>> /\ Head(path) = "/"
        /\ Len(t) = Len(p)
        /\ \A i \in 1..Len(t) : IF IsVariable(t[i]) THEN p[i] # <<>> ELSE p[i] = t[i]

\* mux.Vars(r)["id"]: the segment at the place of {id}; empty when the
\* template has no variable
PathVariable(template, path) ==
    LET t == PathSegments(template)
        at == {i \in 1..Len(t) : IsVariable(t[i])}
    IN  IF at = {} THEN <<>> ELSE PathSegments(path)[SetMin(at)]

RouteEntry(template, method, handler) == [path |-> template, method |-> method, handler |-> handler]

\* A route table that serves the import page and the upload at /import
routesImportAtImport ==
    << RouteEntry(<<"/">>, "GET", "HomeHandler"),
       RouteEntry(<<"/", "a", "d", "d">>, "GET", "AddJobHandler"),
       RouteEntry(<<"/", "c", "r", "e", "a", "t", "e">>, "POST", "CreateJobHandler"),
       RouteEntry(<<"/", "e", "d", "i", "t", "/", "{", "i", "d", "}">>, "GET", "EditJobHandler"),
       RouteEntry(<<"/", "u", "p", "d", "a", "t", "e", "/", "{", "i", "d", "}">>, "POST", "UpdateJobHandler"),
       RouteEntry(<<"/", "d", "e", "l", "e", "t", "e", "/", "{", "i", "d", "}">>, "POST", "DeleteJobHandler"),
       RouteEntry(<<"/", "f", "i", "l", "t", "e", "r">>, "GET", "FilterHandler"),
       RouteEntry(<<"/", "i", "m", "p", "o", "r", "t">>, "GET", "ImportCSVHandler"),
       RouteEntry(<<"/", "i", "m", "p", "o", "r", "t">>, "POST", "ProcessCSVHandler"),
       RouteEntry(<<"/", "a", "p", "i", "/", "s", "t", "a", "t", "s">>, "GET", "StatsHandler"),
       RouteEntry(<<"/", "h", "e", "a", "l", "t", "h">>, "GET", "health") >>

\* A route table whose create route is registered without Methods("POST")
routesCreateAnyMethod ==
    << RouteEntry(<<"/">>, "GET", "HomeHandler"),
       RouteEntry(<<"/", "a", "d", "d">>, "GET", "AddJobHandler"),
       RouteEntry(<<"/", "c", "r", "e", "a", "t", "e">>, "GET", "CreateJobHandler"),
       RouteEntry(<<"/", "c", "r", "e", "a", "t", "e">>, "POST", "CreateJobHandler"),
       RouteEntry(<<"/", "e", "d", "i", "t", "/", "{", "i", "d", "}">>, "GET", "EditJobHandler"),
       RouteEntry(<<"/", "u", "p", "d", "a", "t", "e", "/", "{", "i", "d", "}">>, "POST", "UpdateJobHandler"),
       RouteEntry(<<"/", "d", "e", "l", "e", "t", "e", "/", "{", "i", "d", "}">>, "POST", "DeleteJobHandler"),
       RouteEntry(<<"/", "f", "i", "l", "t", "e", "r">>, "GET", "FilterHandler"),
       RouteEntry(<<"/", "i", "m", "p", "o", "r", "t", "-", "c", "s", "v">>, "GET", "ImportCSVHandler"),
       RouteEntry(<<"/", "p", "r", "o", "c", "e", "s", "s", "-", "c", "s", "v">>, "POST", "ProcessCSVHandler"),
       RouteEntry(<<"/", "a", "p", "i", "/", "s", "t", "a", "t", "s">>, "GET", "StatsHandler"),
       RouteEntry(<<"/", "h", "e", "a", "l", "t", "h">>, "GET", "health") >>

\* The routes of main, in the order they are registered
routes ==
    << RouteEntry(<<"/">>, "GET", "HomeHandler"),
       RouteEntry(<<"/", "a", "d", "d">>, "GET", "AddJobHandler"),
       RouteEntry(<<"/", "c", "r", "e", "a", "t", "e">>, "POST", "CreateJobHandler"),
       RouteEntry(<<"/", "e", "d", "i", "t", "/", "{", "i", "d", "}">>, "GET", "EditJobHandler"),
       RouteEntry(<<"/", "u", "p", "d", "a", "t", "e", "/", "{", "i", "d", "}">>, "POST", "UpdateJobHandler"),
       RouteEntry(<<"/", "d", "e", "l", "e", "t", "e", "/", "{", "i", "d", "}">>, "POST", "DeleteJobHandler"),
       RouteEntry(<<"/", "f", "i", "l", "t", "e", "r">>, "GET", "FilterHandler"),
       RouteEntry(<<"/", "i", "m", "p", "o", "r", "t", "-", "c", "s", "v">>, "GET", "ImportCSVHandler"),
       RouteEntry(<<"/", "p", "r", "o", "c", "e", "s", "s", "-", "c", "s", "v">>, "POST", "ProcessCSVHandler"),
       RouteEntry(<<"/", "a", "p", "i", "/", "s", "t", "a", "t", "s">>, "GET", "StatsHandler"),
       RouteEntry(<<"/", "h", "e", "a", "l", "t", "h">>, "GET", "health") >>

\* r.PathPrefix("/static/"), registered last, for every method
StaticPrefix == <<"/", "s", "t", "a", "t", "i", "c", "/">>

\* mux.Router.Match: the first route whose path and method match serves the
\* request; when some route matches the path and none the method the answer
\* is 405, when no route matches the path it is 404
Route(method, path) ==
    LET onPath == {i \in 1..Len(routes) : MatchPath(routes[i].path, path)}
        hit == {i \in onPath : routes[i].method = method}
    IN  IF hit # {}
        THEN [code |-> 200, handler |-> routes[SetMin(hit)].handler,
              id |-> PathVariable(routes[SetMin(hit)].path, path)]
        ELSE IF HasPrefixAt(path, 1, StaticPrefix)
        THEN [code |-> 200, handler |-> "static", id |-> <<>>]
        ELSE IF onPath # {}
        THEN [code |-> 405, handler |-> "", id |-> <<>>]
        ELSE [code |-> 404, handler |-> "", id |-> <<>>]

\* ---------------------------------------------------- requests by routing
\* The query of a request for the home page: r.URL.Query().Get of error, id
\* and success (empty when absent)
Query(error, id, success) == [error |-> error, id |-> id, success |-> success]

\* The queries the delete handler redirects to, and none
HomeQueries ==
    { Query(<<>>, <<>>, <<>>),
      Query(<<"n", "o", "t", "f", "o", "u", "n", "d">>, <<"3">>, <<>>),
      Query(<<"d", "e", "l", "e", "t", "e">>, <<>>, <<>>),
      Query(<<>>, <<>>, <<"d", "e", "l", "e", "t", "e", "d">>) }

\* The status message of the home page
StatusMessage(query) ==
    IF query.error # <<>>
    THEN IF query.error = <<"n", "o", "t", "f", "o", "u", "n", "d">>
         THEN IF query.id # <<>>
              THEN <<"J", "o", "b", " ", "a", "p", "p", "l", "i", "c", "a", "t", "i", "o", "n", " ", "w", "i", "t", "h", " ", "I", "D", " ">> \o query.id \o <<" ", "n", "o", "t", " ", "f", "o", "u", "n", "d">>
              ELSE <<"J", "o", "b", " ", "a", "p", "p", "l", "i", "c", "a", "t", "i", "o", "n", " ", "n", "o", "t", " ", "f", "o", "u", "n", "d">>
         ELSE IF query.error = <<"d", "e", "l", "e", "t", "e">> THEN <<"F", "a", "i", "l", "e", "d", " ", "t", "o", " ", "d", "e", "l", "e", "t", "e", " ", "j", "o", "b", " ", "a", "p", "p", "l", "i", "c", "a", "t", "i", "o", "n">>
         ELSE <<>>
    ELSE IF query.success = <<"d", "e", "l", "e", "t", "e", "d">> THEN <<"J", "o", "b", " ", "a", "p", "p", "l", "i", "c", "a", "t", "i", "o", "n", " ", "d", "e", "l", "e", "t", "e", "d", " ", "s", "u", "c", "c", "e", "s", "s", "f", "u", "l", "l", "y">>
    ELSE <<>>

StatusType(query) ==
    IF query.error # <<>> THEN "error"
    ELSE IF query.success # <<>> THEN "success"
    ELSE ""

\* GET /; fails: the store calls that fail
HomeHandler(query, fails) ==
    LET req == [query |-> query, fails |-> fails]
    IN  /\ Idle
        /\ IF "jobs" \in fails
           THEN resp' = Response("home", 500, <<>>, "Internal server error", req)
           ELSE \E rows \in GetAllJobApplications(jobs) :
                    resp' = Response("home", 200, <<>>,
                                     [Jobs |-> rows,
                                      StatusCounts |-> IF "counts" \in fails THEN <<>>
                                                       ELSE GetStatusCounts(jobs),
                                      TotalCount |-> IF "total" \in fails THEN 0
                                                     ELSE GetTotalJobApplicationCount(jobs),
                                      StatusMessage |-> StatusMessage(query),
                                      StatusType |-> StatusType(query)], req)
        /\ UNCHANGED <<jobs, seq, now>>

\* GET /add
AddJobHandler ==
    /\ Idle
    /\ resp' = Response("add", 200, <<>>, [Statuses |-> GetCommonStatuses], <<>>)
    /\ UNCHANGED <<jobs, seq, now>>

\* GET /import-csv
ImportCSVHandler ==
    /\ Idle
    /\ resp' = Response("import-csv", 200, <<>>, [Statuses |-> GetCommonStatuses], <<>>)
    /\ UNCHANGED <<jobs, seq, now>>

\* GET /health
HealthHandler ==
    /\ Idle
    /\ resp' = Response("health", 200, <<>>, "{\"status\":\"ok\",\"service\":\"hunter-seeker\"}", <<>>)
    /\ UNCHANGED <<jobs, seq, now>>

\* /static/...: a file of ./web/static, or 404 when there is no such file
StaticHandler(path) ==
    /\ Idle
    /\ \E code \in {200, 404} : resp' = Response("static", code, <<>>, "", [path |-> path])
    /\ UNCHANGED <<jobs, seq, now>>

\* The router's own answer, 405 or 404, to a request no route serves
RouterReject(method, path, code) ==
    /\ Idle
    /\ resp' = Response("router", code, <<>>, "", [method |-> method, path |-> path])
    /\ UNCHANGED <<jobs, seq, now>>

Methods == {"GET", "POST", "PUT", "HEAD"}

\* The paths of the requests: the registered ones with every {id} segment,
\* /import, paths with a missing or extra segment and an unknown one
Paths ==
    { <<"/">>, <<"/", "a", "d", "d">>, <<"/", "c", "r", "e", "a", "t", "e">>, <<"/", "f", "i", "l", "t", "e", "r">>, <<"/", "i", "m", "p", "o", "r", "t", "-", "c", "s", "v">>, <<"/", "p", "r", "o", "c", "e", "s", "s", "-", "c", "s", "v">>,
      <<"/", "a", "p", "i", "/", "s", "t", "a", "t", "s">>, <<"/", "h", "e", "a", "l", "t", "h">>, <<"/", "s", "t", "a", "t", "i", "c", "/", "s", "t", "y", "l", "e", ".", "c", "s", "s">>,
      <<"/", "i", "m", "p", "o", "r", "t">>, <<"/", "e", "d", "i", "t">>, <<"/", "u", "p", "d", "a", "t", "e", "/">>, <<"/", "d", "e", "l", "e", "t", "e", "/", "1", "/", "2">>, <<"/", "n", "o", "n", "e", "x", "i", "s", "t", "e", "n", "t">> }
    \cup {<<"/", "e", "d", "i", "t", "/">> \o seg : seg \in IdSegments}
    \cup {<<"/", "u", "p", "d", "a", "t", "e", "/">> \o seg : seg \in IdSegments}
    \cup {<<"/", "d", "e", "l", "e", "t", "e", "/">> \o seg : seg \in IdSegments}

\* The routing of the requests, computed once
RouteOf == [rq \in Methods \X Paths |-> Route(rq[1], rq[2])] @@ <<>>

\* The router hands the request to the handler its route names, with the
\* inputs the handler reads from the request
Serve(method, path) ==
    /\ Idle
    /\ \E rt \in {RouteOf[<<method, path>>]} :
        \/ rt.handler = "" /\ RouterReject(method, path, rt.code)
        \/ rt.handler = "HomeHandler" /\ \E query \in HomeQueries, fails \in SUBSET HomeCalls : HomeHandler(query, fails)
        \/ rt.handler = "AddJobHandler" /\ AddJobHandler
        \/ rt.handler = "CreateJobHandler" /\ \E form \in Forms, fail \in BOOLEAN : CreateJobHandler(form, fail)
        \/ rt.handler = "EditJobHandler" /\ \E fail \in BOOLEAN : EditJobHandler(rt.id, fail)
        \/ rt.handler = "UpdateJobHandler" /\ \E form \in Forms, fail \in BOOLEAN : UpdateJobHandler(rt.id, form, fail)
        \/ rt.handler = "DeleteJobHandler" /\ \E fail \in BOOLEAN : DeleteJobHandler(rt.id, fail)
        \/ rt.handler = "FilterHandler" /\ \E status \in FilterStatuses, fails \in SUBSET HomeCalls : FilterHandler(status, fails)
        \/ rt.handler = "ImportCSVHandler" /\ ImportCSVHandler
        \/ rt.handler = "ProcessCSVHandler" /\ \E file \in Files : \E failRows \in SUBSET (0..(Len(file) - 1)) : ProcessCSVHandler(file, failRows)
        \/ rt.handler = "StatsHandler" /\ \E fail \in BOOLEAN : StatsHandler(fail)
        \/ rt.handler = "health" /\ HealthHandler
        \/ rt.handler = "static" /\ StaticHandler(path)

NextServe ==
    \/ Respond
    \/ \E method \in Methods, path \in Paths : Serve(method, path)

SpecServe == Init /\ [][NextServe]_vars

\* --------------------------------------------- uploads that try the header
NextHeader ==
    \/ Respond
    \/ \E file \in HeaderFiles : \E failRows \in SUBSET (0..(Len(file) - 1)) :
           ProcessCSVHandler(file, failRows)

SpecHeader == Init /\ [][NextHeader]_vars

\* ------------------------------------------------ requests running together
\* net/http serves every request on a goroutine of its own and the handlers
\* share one *sql.DB without a lock or a transaction: each statement is a step
\* of its own, and the statements of the requests in flight interleave.  In
\* these runs resp holds, for every connection, the request in flight on it
\* (code 0) or its response.
Conns == {1, 2}

\* The connections that load pages
Readers == {1}

ConcForms == { Form(<<"2", "0", "2", "4", "-", "0", "1", "-", "1", "5">>, <<"E", "n", "g">>, <<"A", "c", "m", "e">>, <<"I", "n", "t", "e", "r", "v", "i", "e", "w">>, <<"u">>, <<"n">>) }

ConcFiles ==
    { << <<"D", "a", "t", "e", " ", "A", "p", "p", "l", "i", "e", "d", ",", "J", "o", "b", " ", "T", "i", "t", "l", "e", ",", "C", "o", "m", "p", "a", "n", "y">>,
         <<"2", "0", "2", "4", "-", "0", "1", "-", "1", "5", ",", "E", "n", "g", ",", "A", "c", "m", "e">>,
         <<"1", "3", "/", "4", "5", "/", "2", "0", "2", "4", ",", "D", "e", "v", ",", "I", "n", "i", "t">>,
         <<"2", "0", "2", "4", "-", "0", "2", "-", "0", "1", ",", "D", "e", "v", ",", "I", "n", "i", "t">> >> }

ConcStatuses == { <<>>, <<"I", "n", "t", "e", "r", "v", "i", "e", "w">> }

ConcSegments == { <<"1">>, <<"2">> }

InitConc ==
    /\ jobs = {}
    /\ seq = 0
    /\ now = 0
    /\ resp = [c \in Conns |-> NoResponse]

\* POST /create on connection c: one INSERT
ConcCreate(c, form, fail) ==
    LET t == FormDate[form.date_applied]
        job == [form EXCEPT !.date_applied = DateOf(t)]
        res == CreateJobApplication(jobs, seq, now, job, fail)
    IN  /\ resp[c].op = "none"
        /\ seq < MaxId
        /\ IF ~t.ok
           THEN /\ resp' = [resp EXCEPT ![c] = Response("create", 400, <<>>, "Invalid date format",
                                                        [form |-> form, fail |-> fail, id |-> 0])]
                /\ UNCHANGED <<jobs, seq>>
           ELSE IF res.err # ""
           THEN /\ resp' = [resp EXCEPT ![c] = Response("create", 500, <<>>, "Failed to create job application",
                                                        [form |-> form, fail |-> fail, id |-> 0])]
                /\ UNCHANGED <<jobs, seq>>
           ELSE /\ resp' = [resp EXCEPT ![c] = Response("create", 303, <<"/">>, <<>>,
                                                        [form |-> form, fail |-> fail, id |-> res.id])]
                /\ jobs' = res.jobs
                /\ seq' = res.seq
        /\ UNCHANGED now

\* POST /delete/{id} on connection c: one DELETE
ConcDelete(c, seg, fail) ==
    LET id == SegmentId[seg]
        res == DeleteJobApplication(jobs, id.n, fail)
        req == [id |-> seg, fail |-> fail]
    IN  /\ resp[c].op = "none"
        /\ IF ~id.ok
           THEN /\ resp' = [resp EXCEPT ![c] = Response("delete", 400, <<>>, "Invalid job ID", req)]
                /\ UNCHANGED jobs
           ELSE IF res.err = "ErrJobNotFound"
           THEN /\ resp' = [resp EXCEPT ![c] = Response("delete", 303, <<"/", "?", "e", "r", "r", "o", "r", "=", "n", "o", "t", "f", "o", "u", "n", "d", "&", "i", "d", "=">> \o Itoa(id.n), <<>>, req)]
                /\ UNCHANGED jobs
           ELSE IF res.err # ""
           THEN /\ resp' = [resp EXCEPT ![c] = Response("delete", 303, <<"/", "?", "e", "r", "r", "o", "r", "=", "d", "e", "l", "e", "t", "e">>, <<>>, req)]
                /\ UNCHANGED jobs
           ELSE /\ resp' = [resp EXCEPT ![c] = Response("delete", 303, <<"/", "?", "s", "u", "c", "c", "e", "s", "s", "=", "d", "e", "l", "e", "t", "e", "d">>, <<>>, req)]
                /\ jobs' = res.jobs
        /\ UNCHANGED <<seq, now>>

\* GET / (page "home", no status) or GET /filter on connection c, up to its
\* first query, the list of jobs; fail: the query fails.  failed: a later
\* query of the request failed
PageJobs(c, page, status, fail) ==
    LET req == [status |-> status, failed |-> FALSE, pc |-> "counts"]
    IN  /\ resp[c].op = "none"
        /\ page = "home" => status = <<>>
        /\ IF fail
           THEN resp' = [resp EXCEPT ![c] = Response(page, 500, <<>>, "Internal server error",
                                                     [req EXCEPT !.pc = "done", !.failed = TRUE])]
           ELSE \E rows \in (IF status # <<>> THEN GetJobApplicationsByStatus(jobs, status)
                                              ELSE GetAllJobApplications(jobs)) :
                    resp' = [resp EXCEPT ![c] = Response(page, 0, <<>>,
                                                         [Jobs |-> rows, StatusCounts |-> <<>>,
                                                          TotalCount |-> 0], req)]
        /\ UNCHANGED <<jobs, seq, now>>

\* The second query of a page: the status counts
PageCounts(c, fail) ==
    /\ resp[c].op \in {"home", "filter"}
    /\ resp[c].code = 0
    /\ resp[c].req.pc = "counts"
    /\ resp' = [resp EXCEPT ![c].body.StatusCounts = IF fail THEN <<>> ELSE GetStatusCounts(jobs),
                            ![c].req.failed = @ \/ fail,
                            ![c].req.pc = "total"]
    /\ UNCHANGED <<jobs, seq, now>>

\* The third query of a page, the total count, and the rendering of the page
PageTotal(c, fail) ==
    /\ resp[c].op \in {"home", "filter"}
    /\ resp[c].code = 0
    /\ resp[c].req.pc = "total"
    /\ resp' = [resp EXCEPT ![c].body.TotalCount = IF fail THEN 0
                                                   ELSE GetTotalJobApplicationCount(jobs),
                            ![c].req.failed = @ \/ fail,
                            ![c].req.pc = "done",
                            ![c].code = 200]
    /\ UNCHANGED <<jobs, seq, now>>

\* POST /process-csv on connection c, up to the loop over the records; i is
\* the index of the loop and ids the identifiers the request's rows received
ImportBegin(c, file) ==
    LET read == FileRecords[file]
        records == read.records
        startIdx == IF Len(records) > 0 /\ RecordIsHeader[records[1]] THEN 1 ELSE 0
        req == [file |-> file, i |-> startIdx, ids |-> {}]
    IN  /\ resp[c].op = "none"
        /\ IF ~read.ok
           THEN resp' = [resp EXCEPT ![c] = Response("process-csv", 400, <<>>, "Failed to parse CSV file", req)]
           ELSE IF Len(records) = 0
           THEN resp' = [resp EXCEPT ![c] = Response("process-csv", 400, <<>>, "CSV file is empty", req)]
           ELSE resp' = [resp EXCEPT ![c] = Response("process-csv", 0, <<>>,
                                                     [SuccessCount |-> 0, ErrorCount |-> 0, Errors |-> <<>>,
                                                      TotalRows |-> Len(records) - startIdx], req)]
        /\ UNCHANGED <<jobs, seq, now>>

\* One turn of the loop of an import in flight; fail: the store refuses the
\* row's INSERT
ImportTurn(c, fail) ==
    LET records == FileRecords[resp[c].req.file].records
        i == resp[c].req.i
        acc == ImportRow(records[i + 1], i, fail, now,
                         [jobs |-> jobs, seq |-> seq,
                          successCount |-> resp[c].body.SuccessCount,
                          errorCount |-> resp[c].body.ErrorCount,
                          errors |-> resp[c].body.Errors])
    IN  /\ resp[c].op = "process-csv"
        /\ resp[c].code = 0
        /\ i < Len(records)
        /\ acc.seq <= MaxId
        /\ jobs' = acc.jobs
        /\ seq' = acc.seq
        /\ resp' = [resp EXCEPT ![c].body.SuccessCount = acc.successCount,
                                ![c].body.ErrorCount = acc.errorCount,
                                ![c].body.Errors = acc.errors,
                                ![c].req.i = i + 1,
                                ![c].req.ids = IF acc.seq # seq THEN @ \cup {acc.seq} ELSE @]
        /\ UNCHANGED now

\* The loop of an import is over: the result page is rendered
ImportEnd(c) ==
    /\ resp[c].op = "process-csv"
    /\ resp[c].code = 0
    /\ resp[c].req.i >= Len(FileRecords[resp[c].req.file].records)
    /\ resp' = [resp EXCEPT ![c].code = 200]
    /\ UNCHANGED <<jobs, seq, now>>

\* The response of connection c is sent
RespondConc(c) ==
    /\ resp[c].code # 0
    /\ resp' = [resp EXCEPT ![c] = NoResponse]
    /\ UNCHANGED <<jobs, seq, now>>

NextConc ==
    \/ \E c \in Conns, form \in ConcForms, fail \in BOOLEAN : ConcCreate(c, form, fail)
    \/ \E c \in Conns, seg \in ConcSegments, fail \in BOOLEAN : ConcDelete(c, seg, fail)
    \/ \E c \in Readers, page \in {"home", "filter"}, status \in ConcStatuses, fail \in BOOLEAN :
           PageJobs(c, page, status, fail)
    \/ \E c \in Readers, fail \in BOOLEAN : PageCounts(c, fail)
    \/ \E c \in Readers, fail \in BOOLEAN : PageTotal(c, fail)
    \/ \E c \in Conns, file \in ConcFiles : ImportBegin(c, file)
    \/ \E c \in Conns, fail \in BOOLEAN : ImportTurn(c, fail)
    \/ \E c \in Conns : ImportEnd(c)
    \/ \E c \in Conns : RespondConc(c)

SpecConc == InitConc /\ [][NextConc]_vars

\* ------------------------------------------------------- parseDate alone
\* A number written with two digits
Pad2(n) == IF n < 10 THEN <<"0">> \o Itoa(n) ELSE Itoa(n)

DateYear == <<"2", "0", "2", "4">>

\* The dates given to parseDate: a/b/2024 and 2024-b-a with and without
\* leading zeros for every a up to MaxDay + 1 and b up to MaxMonth + 1, dates
\* with month names, words and the empty string
\* The ways of writing a day of a named month of the year: abbreviated and
\* full month name, with and without a comma, and day first
MonthNamed(day, month) ==
    { shortMonthNames[month] \o <<" ">> \o Itoa(day) \o <<" ">> \o DateYear,
      shortMonthNames[month] \o <<" ">> \o Itoa(day) \o <<",", " ">> \o DateYear,
      longMonthNames[month] \o <<" ">> \o Itoa(day) \o <<" ">> \o DateYear,
      longMonthNames[month] \o <<" ">> \o Itoa(day) \o <<",", " ">> \o DateYear,
      Itoa(day) \o <<" ">> \o shortMonthNames[month] \o <<" ">> \o DateYear }

\* The days written with a month name: the first and the last ones of a month
MonthDays == {1} \cup (28..(MaxDay + 1))

DateInputs ==
    UNION {{ Itoa(a) \o <<"/">> \o Itoa(b) \o <<"/">> \o DateYear,
             Pad2(a) \o <<"/">> \o Pad2(b) \o <<"/">> \o DateYear,
             DateYear \o <<"-">> \o Pad2(b) \o <<"-">> \o Pad2(a),
             DateYear \o <<"-">> \o Itoa(b) \o <<"-">> \o Itoa(a) } :
           a \in 1..(MaxDay + 1), b \in 1..(MaxMonth + 1)}
    \cup UNION {MonthNamed(day, month) : day \in MonthDays, month \in 1..12}
    \cup { <<>>, <<"x">>, <<"t", "o", "m", "o", "r", "r", "o", "w">>, <<"2", "0", "2", "4">>, <<"J", "a", "n", " ", "1", "5", " ", "2", "0", "2", "4">>, <<"J", "a", "n", "u", "a", "r", "y", " ", "1", "5", ",", " ", "2", "0", "2", "4">>,
           <<"F", "e", "b", " ", "2", "0", " ", "2", "0", "2", "4">>, <<"1", "5", " ", "J", "a", "n", " ", "2", "0", "2", "4">>, <<"2", "0", "2", "4", "-", "0", "1", "-", "1", "5", " ">> }

\* A call parseDate(dateStr)
ParseDateCall(dateStr) ==
    /\ Idle
    /\ resp' = Response("parseDate", 0, <<>>, parseDate(dateStr), [dateStr |-> dateStr])
    /\ UNCHANGED <<jobs, seq, now>>

NextParse ==
    \/ \E dateStr \in DateInputs : ParseDateCall(dateStr)
    \/ Respond

SpecParse == Init /\ [][NextParse]_vars

\* ----------------------------------------------------------------- claims
\* The identifier a handled update or delete request names
RequestId(rsp) == SegmentId[rsp.req.id]

\* The step handled an update or a delete of identifier id
TouchesId(rsp, id) ==
    /\ rsp.op \in {"update", "delete"}
    /\ RequestId(rsp).ok
    /\ RequestId(rsp).n = id

\* The job a successful create request submitted
SubmittedJob(rsp) == [rsp.req.form EXCEPT !.date_applied = DateOf(FormDate[rsp.req.form.date_applied])]

\* C1: after a create succeeds, fetching the assigned identifier succeeds and
\* returns the submitted date, title, company, status, URL and notes; and a
\* step that is no update or delete of an identifier leaves what a fetch of
\* that identifier returns unchanged.
C1_CreateThenGet ==
    [][ /\ (resp'.op = "create" /\ resp'.code = 303) =>
            /\ Cardinality(jobs' \ jobs) = 1
            /\ \A new \in jobs' \ jobs :
                 LET got == GetJobApplication(jobs', new.id, FALSE)
                 IN  got.err = "" /\ Fields(got.job) = SubmittedJob(resp')
        /\ \A r \in jobs :
             ~TouchesId(resp', r.id) =>
                 LET got == GetJobApplication(jobs', r.id, FALSE)
                 IN  got.err = "" /\ Fields(got.job) = Fields(r)
      ]_vars

\* A create with every field filled in has succeeded
C1_Witness ==
    /\ resp.op = "create"
    /\ resp.code = 303
    /\ resp.req.form.job_url # <<>>
    /\ resp.req.form.notes # <<>>
    /\ Cardinality(jobs) = 2

\* C2 as claimed: a filter by a status lists exactly the stored records with
\* that status, each once, by descending date applied, and among equal dates
\* the later-created record (the larger identifier) first.
C2_FilterLaterCreatedFirst ==
    (resp.op = "filter" /\ resp.code = 200 /\ resp.req.status # <<>>) =>
        LET rows == resp.body.Jobs
            want == {r \in jobs : r.status = resp.req.status}
        IN  /\ {rows[i] : i \in 1..Len(rows)} = want
            /\ Len(rows) = Cardinality(want)
            /\ \A i \in 1..Len(rows) : \A j \in (i + 1)..Len(rows) :
                 \/ DateKey(rows[i].date_applied) > DateKey(rows[j].date_applied)
                 \/ /\ DateKey(rows[i].date_applied) = DateKey(rows[j].date_applied)
                    /\ rows[i].id > rows[j].id

RECURSIVE SumOver(_, _)
SumOver(f, S) ==
    IF S = {} THEN 0
    ELSE LET s == CHOOSE x \in S : TRUE IN f[s] + SumOver(f, S \ {s})

\* C3: in every reachable store the values of the status-count map add up to
\* the number of stored records, each key maps to the number of stored
\* records with exactly that status, and GET /api/stats answers that map.
C3_StatusCountsSum ==
    LET counts == GetStatusCounts(jobs)
    IN  /\ SumOver(counts, DOMAIN counts) = Cardinality(jobs)
        /\ \A s \in DOMAIN counts : counts[s] = Cardinality({r \in jobs : r.status = s})
        /\ \A r \in jobs : r.status \in DOMAIN counts
        /\ (resp.op = "stats" /\ resp.code = 200) =>
               SumOver(resp.body, DOMAIN resp.body) = Cardinality(jobs)

\* The statistics were served for a store with two statuses, one of them empty
C3_Witness ==
    /\ resp.op = "stats"
    /\ resp.code = 200
    /\ Cardinality(DOMAIN resp.body) = 2
    /\ <<>> \in DOMAIN resp.body

\* C4: deleting an identifier that is not stored returns ErrJobNotFound and
\* leaves the store unchanged; the delete handler redirects to
\* /?success=deleted after a delete, to /?error=notfound&id=<id> for an
\* identifier that is not stored, and to /?error=delete when the store fails.
C4_DeleteOutcomes ==
    [][ /\ \A id \in (1..(MaxId + 1)) \ Ids(jobs) :
             /\ DeleteJobApplication(jobs, id, FALSE).err = "ErrJobNotFound"
             /\ DeleteJobApplication(jobs, id, FALSE).jobs = jobs
        /\ (resp'.op = "delete" /\ RequestId(resp').ok) =>
             LET id == RequestId(resp').n
             IN  /\ resp'.code = 303
                 /\ (~resp'.req.fail /\ id \in Ids(jobs)) =>
                        /\ resp'.loc = <<"/", "?", "s", "u", "c", "c", "e", "s", "s", "=", "d", "e", "l", "e", "t", "e", "d">>
                        /\ jobs' = {r \in jobs : r.id # id}
                 /\ (~resp'.req.fail /\ id \notin Ids(jobs)) =>
                        /\ resp'.loc = <<"/", "?", "e", "r", "r", "o", "r", "=", "n", "o", "t", "f", "o", "u", "n", "d", "&", "i", "d", "=">> \o Itoa(id)
                        /\ jobs' = jobs
                 /\ resp'.req.fail =>
                        /\ resp'.loc = <<"/", "?", "e", "r", "r", "o", "r", "=", "d", "e", "l", "e", "t", "e">>
                        /\ jobs' = jobs
      ]_vars

\* A delete of an identifier that is not stored was answered
C4_Witness ==
    /\ resp.op = "delete"
    /\ resp.code = 303
    /\ resp.loc = <<"/", "?", "e", "r", "r", "o", "r", "=", "n", "o", "t", "f", "o", "u", "n", "d", "&", "i", "d", "=", "3">>
    /\ jobs # {}

\* The lines of a file that hold a row, numbered as rows from 1
FileRows(file) == SelectSeq(file, LAMBDA line : line # <<>>)

\* The rows of a file with fewer than 3 columns that are not blank
ShortRows(file) ==
    {i \in 1..Len(FileRows(file)) :
        /\ Len(SplitComma(FileRows(file)[i], <<>>)) < 3
        /\ TrimSpace(FileRows(file)[i]) # <<>>}

\* C5 as claimed: an import of a file with a row of fewer than 3 columns is
\* not rejected as a whole; every such row that is no header gets exactly
\* one error entry.
C5_ShortRowRejectedAlone ==
    (resp.op = "process-csv" /\ ShortRows(resp.req.file) # {}) =>
        /\ resp.code = 200
        /\ \A i \in ShortRows(resp.req.file) :
             (i > 1 \/ ~isHeaderRow(SplitComma(FileRows(resp.req.file)[i], <<>>))) =>
                 Cardinality({k \in 1..Len(resp.body.Errors) : resp.body.Errors[k].row = i}) = 1

\* The records of an import request and the first of them that is data
ImportRecords(rsp) == FileRecords[rsp.req.file].records
ImportFirst(rsp) == IF RecordIsHeader[ImportRecords(rsp)[1]] THEN 2 ELSE 1

\* The rows of an import request that parse and whose INSERT the store takes
ImportGood(rsp) ==
    {i \in ImportFirst(rsp)..Len(ImportRecords(rsp)) :
        RecordJob[ImportRecords(rsp)[i]].ok /\ (i - 1) \notin rsp.req.failRows}

ImportBad(rsp) == (ImportFirst(rsp)..Len(ImportRecords(rsp))) \ ImportGood(rsp)

\* Every row of the file has the same number, at least 3, of columns
UniformFiles ==
    {file \in Files :
        /\ FileRows(file) # <<>>
        /\ \A i \in 1..Len(FileRows(file)) :
             /\ Len(SplitComma(FileRows(file)[i], <<>>)) >= 3
             /\ Len(SplitComma(FileRows(file)[i], <<>>)) = Len(SplitComma(FileRows(file)[1], <<>>))}

UniformFile(file) == file \in UniformFiles

\* C6: an import of a file whose rows all have the same number, at least 3,
\* of columns processes every data row: the success count is the number of
\* rows that parse and are stored, the error count the number of rows that
\* fail, each failing row has exactly one error message and it names the
\* row's number, and every good row is stored whatever rows failed before it.
C6_ImportCounts ==
    [][ (resp'.op = "process-csv" /\ UniformFile(resp'.req.file)) =>
            /\ resp'.code = 200
            /\ resp'.body.SuccessCount = Cardinality(ImportGood(resp'))
            /\ resp'.body.ErrorCount = Cardinality(ImportBad(resp'))
            /\ Len(resp'.body.Errors) = Cardinality(ImportBad(resp'))
            /\ \A i \in ImportBad(resp') :
                 Cardinality({k \in 1..Len(resp'.body.Errors) : resp'.body.Errors[k].row = i}) = 1
            /\ jobs \subseteq jobs'
            /\ Cardinality(jobs' \ jobs) = Cardinality(ImportGood(resp'))
            /\ \A i \in ImportGood(resp') :
                 \E r \in jobs' \ jobs : Fields(r) = RecordJob[ImportRecords(resp')[i]].job
      ]_vars

\* A file of three data rows, the second with a malformed date, was imported:
\* two successes and one error, on row 3 of the file
C6_Witness ==
    /\ resp.op = "process-csv"
    /\ resp.code = 200
    /\ resp.body.SuccessCount = 2
    /\ resp.body.ErrorCount = 1
    /\ resp.body.Errors[1] = [row |-> 3, msg |-> "invalid date format"]

KeywordSet == { <<"d", "a", "t", "e">>, <<"j", "o", "b">>, <<"t", "i", "t", "l", "e">>, <<"c", "o", "m", "p", "a", "n", "y">>, <<"p", "o", "s", "i", "t", "i", "o", "n">>, <<"r", "o", "l", "e">> }

\* Column 1 of the first row of the file names a header
FilesWithHeader ==
    {file \in Files :
        /\ FileRows(file) # <<>>
        /\ \E k \in KeywordSet :
             Contains(ToLower(TrimSpace(SplitComma(FileRows(file)[1], <<>>)[1])), k)}

HeaderFile(file) == file \in FilesWithHeader

\* C7: when column 1 of the first row holds a header keyword in any case, the
\* row is not inserted, counts neither as a success nor as an error, and is
\* not part of the reported total of rows.
C7_HeaderSkipped ==
    [][ (resp'.op = "process-csv" /\ resp'.code = 200 /\ HeaderFile(resp'.req.file)) =>
            LET n == Len(ImportRecords(resp'))
                data == {i \in 2..n : RecordJob[ImportRecords(resp')[i]].ok}
            IN  /\ resp'.body.TotalRows = n - 1
                /\ \A k \in 1..Len(resp'.body.Errors) : resp'.body.Errors[k].row # 1
                /\ resp'.body.SuccessCount + resp'.body.ErrorCount <= n - 1
                /\ Cardinality(jobs' \ jobs) <= Cardinality(data)
                /\ \A r \in jobs' \ jobs :
                     \E i \in data : Fields(r) = RecordJob[ImportRecords(resp')[i]].job
      ]_vars

\* A file with the header "Date Applied,..." and three more rows was imported
C7_Witness ==
    /\ resp.op = "process-csv"
    /\ resp.code = 200
    /\ HeaderFile(resp.req.file)
    /\ resp.body.TotalRows = 3
    /\ resp.body.SuccessCount + resp.body.ErrorCount = 3

\* C8 as claimed: every stored job application has a non-empty job title and
\* a non-empty company name.
C8_TitleAndCompanyNonEmpty ==
    \A r \in jobs : r.job_title # <<>> /\ r.company # <<>>

\* C9 as claimed: a job application created without a status, by the form or
\* by a CSV row, is stored with the status "Applied", and no create stores an
\* empty status.
C9_StatusDefaultsToApplied ==
    [][ /\ (resp'.op = "create" /\ resp'.code = 303 /\ resp'.req.form.status = <<>>) =>
            \A r \in jobs' \ jobs : r.status = StatusApplied
        /\ resp'.op \in {"create", "process-csv"} =>
            \A r \in jobs' \ jobs : r.status # <<>>
      ]_vars

\* No two rows share an identifier
UniqueIds(js) == \A a \in js : \A b \in js : a.id = b.id => a = b

\* C10: no two stored records share an identifier; an update keeps the
\* identifiers (and creation times) of the stored records, a create or an
\* import keeps every stored record as it is, a delete removes at most one
\* record and changes no other; and every identifier a step assigns is larger
\* than every identifier assigned before, so a freed identifier is not reused.
C10_IdentifiersUniqueImmutable ==
    [][ /\ UniqueIds(jobs) /\ UniqueIds(jobs')
        /\ \A r \in jobs : r.id <= seq
        /\ seq' >= seq
        /\ \A r \in jobs' : r.id \in Ids(jobs) \/ r.id > seq
        /\ resp'.op = "update" =>
             {<<r.id, r.created_at>> : r \in jobs'} = {<<r.id, r.created_at>> : r \in jobs}
        /\ resp'.op \in {"create", "process-csv"} => jobs \subseteq jobs'
        /\ resp'.op = "delete" => (jobs' \subseteq jobs /\ Cardinality(jobs \ jobs') <= 1)
        /\ resp'.op \notin {"create", "process-csv", "update", "delete"} => jobs' = jobs
      ]_vars

\* A create succeeded after an earlier identifier had been freed by a delete
C10_Witness ==
    /\ resp.op = "create"
    /\ resp.code = 303
    /\ Cardinality(jobs) < seq

\* C11: an update of a stored identifier replaces the whole record: a fetch
\* of the identifier then returns exactly the submitted date, title, company,
\* status, URL and notes (an empty submitted field included), the record
\* keeps its identifier and creation time, its update time is the time of
\* the update, and every other record is unchanged.
C11_UpdateReplacesRecord ==
    [][ (resp'.op = "update" /\ resp'.code = 303) =>
            LET id == RequestId(resp').n
                got == GetJobApplication(jobs', id, FALSE)
            IN  /\ id \in Ids(jobs)
                /\ got.err = ""
                /\ Fields(got.job) = SubmittedJob(resp')
                /\ got.job.id = id
                /\ got.job.created_at = GetJobApplication(jobs, id, FALSE).job.created_at
                /\ got.job.updated_at = now
                /\ {r \in jobs' : r.id # id} = {r \in jobs : r.id # id}
                /\ Cardinality(jobs') = Cardinality(jobs)
      ]_vars

\* An update with empty title, company, status, URL and notes has replaced a
\* record that was created a second earlier, next to another record
C11_Witness ==
    /\ resp.op = "update"
    /\ resp.code = 303
    /\ resp.req.form.job_title = <<>>
    /\ Cardinality(jobs) = 2
    /\ \E r \in jobs :
         /\ r.id = RequestId(resp).n
         /\ r.job_title = <<>>
         /\ r.notes = <<>>
         /\ r.updated_at > r.created_at

\* The request named an identifier and got past the checks of its input
IdRequest(rsp) ==
    /\ rsp.op \in {"edit", "update", "delete"}
    /\ RequestId(rsp).ok
    /\ rsp.op = "update" => FormDate[rsp.req.form.date_applied].ok

\* The response says that the identifier was not found
SaysNotFound(rsp) ==
    \/ rsp.code = 404
    \/ Contains(rsp.loc, <<"e", "r", "r", "o", "r", "=", "n", "o", "t", "f", "o", "u", "n", "d">>)

\* The response reports a failure without saying what failed
SaysInternalError(rsp) ==
    \/ rsp.code = 500
    \/ rsp.loc = <<"/", "?", "e", "r", "r", "o", "r", "=", "d", "e", "l", "e", "t", "e">>

\* C12 as claimed: for the edit form, the update and the delete, a store
\* failure is never answered as 'not found', and an identifier that is not
\* stored is answered as 'not found' and not as an internal error.
C12_NotFoundDistinct ==
    IdRequest(resp) =>
        /\ resp.req.fail => ~SaysNotFound(resp)
        /\ (~resp.req.fail /\ RequestId(resp).n \notin Ids(jobs)) =>
               (SaysNotFound(resp) /\ ~SaysInternalError(resp))

\* s is a date written YYYY-MM-DD: four digits, two digits from 01 to 12 and
\* two digits that name a day of that month
ValidISODate(s) ==
    /\ Len(s) = 10
    /\ s[5] = "-" /\ s[8] = "-"
    /\ AllDigits(SubSeq(s, 1, 4)) /\ AllDigits(SubSeq(s, 6, 7)) /\ AllDigits(SubSeq(s, 9, 10))
    /\ DigitsValue(SubSeq(s, 6, 7), 0) \in 1..12
    /\ DigitsValue(SubSeq(s, 9, 10), 0) \in
           1..daysIn(DigitsValue(SubSeq(s, 6, 7), 0), DigitsValue(SubSeq(s, 1, 4), 0))

\* s is a decimal integer: digits, with or without a sign
IsInteger(s) ==
    /\ s # <<>>
    /\ IF s[1] \in {"+", "-"} THEN Len(s) > 1 /\ AllDigits(Tail(s)) ELSE AllDigits(s)

\* C13: a create or update request whose date_applied is no valid YYYY-MM-DD
\* date, or (update) whose {id} segment is no integer, is answered with
\* HTTP 400, and no record is inserted, modified or deleted.
C13_BadInputRejected ==
    [][ /\ (resp'.op = "create" /\ ~ValidISODate(resp'.req.form.date_applied)) =>
            (resp'.code = 400 /\ jobs' = jobs /\ seq' = seq)
        /\ (resp'.op = "update" /\ (~ValidISODate(resp'.req.form.date_applied)
                                     \/ ~IsInteger(resp'.req.id))) =>
            (resp'.code = 400 /\ jobs' = jobs /\ seq' = seq)
      ]_vars

\* An update of a stored record with the date 2024-02-30 was answered 400
C13_Witness ==
    /\ resp.op = "update"
    /\ resp.code = 400
    /\ resp.body = "Invalid date format"
    /\ resp.req.form.date_applied = <<"2", "0", "2", "4", "-", "0", "2", "-", "3", "0">>
    /\ RequestId(resp).n \in Ids(jobs)

\* The layouts of parseDate, by their place in the list, that parse the value
ParsedBy(dateStr) == {i \in 1..Len(formats) : TimeParse(formats[i], dateStr).ok}

\* C14 as claimed: whenever no layout parses the input, parseDate returns the
\* error 'unrecognized date format'.
C14_UnrecognizedWheneverNoLayout ==
    (resp.op = "parseDate" /\ ParsedBy(resp.req.dateStr) = {}) =>
        (~resp.body.ok /\ resp.body.err = "unrecognized date format")

\* C14, amended: for a non-empty input parseDate returns what the earliest
\* layout of the list that parses the input gives, and the error
\* 'unrecognized date format' with no date when no layout parses it; for the
\* empty input it returns the error 'date is required' and no date.
C14_FirstLayoutWins ==
    resp.op = "parseDate" =>
        LET dateStr == resp.req.dateStr
            hit == ParsedBy(dateStr)
        IN  IF dateStr = <<>>
            THEN resp.body = DateError("date is required")
            ELSE IF hit = {}
            THEN resp.body = DateError("unrecognized date format")
            ELSE /\ resp.body.ok
                 /\ resp.body.err = ""
                 /\ DateOf(resp.body) = DateOf(TimeParse(formats[SetMin(hit)], dateStr))

\* 01/02/2024, which the month-first and the day-first layouts both parse,
\* was read by the month-first layout as the 2nd of January
C14_Witness ==
    /\ resp.op = "parseDate"
    /\ resp.req.dateStr = <<"0", "1", "/", "0", "2", "/", "2", "0", "2", "4">>
    /\ {2, 4} \subseteq ParsedBy(resp.req.dateStr)
    /\ DateOf(resp.body) = [y |-> 2024, m |-> 1, d |-> 2]

\* The two spellings, D/M/YYYY and DD/MM/YYYY, of a day-first slash date
DayFirst(day, month) ==
    { Itoa(day) \o <<"/">> \o Itoa(month) \o <<"/">> \o DateYear,
      Pad2(day) \o <<"/">> \o Pad2(month) \o <<"/">> \o DateYear }

\* C15 as claimed: for every month and every day of that month, parseDate
\* accepts the date written day/month/year and returns the date with that
\* day and that month.
C15_DayFirstSlashDates ==
    resp.op = "parseDate" =>
        \A month \in 1..12 : \A day \in 1..daysIn(month, 2024) :
            resp.req.dateStr \in DayFirst(day, month) =>
                (resp.body.ok /\ DateOf(resp.body) = [y |-> 2024, m |-> month, d |-> day])

\* Column k of a record, trimmed; the empty string when the record has no
\* column k
Column(record, k) == IF Len(record) >= k THEN TrimSpace(record[k]) ELSE <<>>

\* The job application a row of six columns in the order date, title,
\* company, status, URL, notes stands for
RowJob(record) ==
    [date_applied |-> DateOf(FileDate[Column(record, 1)]),
     job_title |-> Column(record, 2),
     company |-> Column(record, 3),
     status |-> IF Column(record, 4) = <<>> THEN StatusApplied ELSE Column(record, 4),
     job_url |-> Column(record, 5),
     notes |-> Column(record, 6)]

\* C16: every row an import stores is stored with column 1 as the date,
\* column 2 as the title, column 3 as the company, column 4, trimmed, as the
\* status ("Applied" when the column is absent or blank), and columns 5 and
\* 6 as URL and notes (empty when absent); and nothing else is stored.
C16_ColumnOrderAndDefaults ==
    [][ (resp'.op = "process-csv" /\ resp'.code = 200) =>
            /\ \A i \in ImportGood(resp') :
                 \E r \in jobs' \ jobs : Fields(r) = RowJob(ImportRecords(resp')[i])
            /\ \A r \in jobs' \ jobs :
                 \E i \in ImportGood(resp') : Fields(r) = RowJob(ImportRecords(resp')[i])
      ]_vars

\* A file of one row of four columns, the fourth " On hold ", was imported:
\* the record has the status "On hold", no URL and no notes
C16_Witness ==
    /\ resp.op = "process-csv"
    /\ resp.code = 200
    /\ resp.body.SuccessCount = 1
    /\ Len(ImportRecords(resp)[1]) = 4
    /\ \E r \in jobs : r.status = <<"O", "n", " ", "h", "o", "l", "d">> /\ r.job_url = <<>> /\ r.notes = <<>>

\* A file of six columns was imported: a row with a blank status column is
\* stored as "Applied", a row with status, URL and notes as given
C16_WitnessSixColumns ==
    /\ resp.op = "process-csv"
    /\ resp.code = 200
    /\ resp.body.SuccessCount = 2
    /\ Len(ImportRecords(resp)[1]) = 6
    /\ \E r \in jobs : r.status = StatusApplied /\ r.job_title = <<"D", "e", "v">>
    /\ \E r \in jobs : r.status = <<"I", "n", "t", "e", "r", "v", "i", "e", "w">> /\ r.job_url = <<"u">> /\ r.notes = <<"n">>

\* The rows of a file that are blank: a line of spaces and nothing else, which
\* csv.Reader reads as a record with a single blank field
BlankRows(file) ==
    {i \in 1..Len(FileRows(file)) : TrimSpace(FileRows(file)[i]) = <<>>}

\* C17 as claimed: an import of a file with blank rows skips them: the import
\* is carried out, and a blank row is counted neither as a success nor as an
\* error, so the two counts add up to the number of the other data rows.
C17_BlankRowsSkipped ==
    (resp.op = "process-csv" /\ BlankRows(resp.req.file) # {}) =>
        /\ resp.code = 200
        /\ \A k \in 1..Len(resp.body.Errors) : resp.body.Errors[k].row \notin BlankRows(resp.req.file)
        /\ resp.body.SuccessCount + resp.body.ErrorCount
             = resp.body.TotalRows - Cardinality(BlankRows(resp.req.file))

\* A file whose only row is blank was imported: nothing stored, no success
\* and no error
C17_SkipReached ==
    /\ resp.op = "process-csv"
    /\ resp.code = 200
    /\ BlankRows(resp.req.file) # {}
    /\ resp.body.SuccessCount + resp.body.ErrorCount = 0

C19_DeleteRemovesExactlyOne ==
    [][ /\ \A r \in jobs :
             LET res == DeleteJobApplication(jobs, r.id, FALSE)
             IN  /\ res.err = ""
                 /\ GetJobApplication(res.jobs, r.id, FALSE).err # ""
                 /\ Cardinality(res.jobs) = Cardinality(jobs) - 1
                 /\ res.jobs = jobs \ {r}
        /\ (resp'.op = "delete" /\ RequestId(resp').ok /\ ~resp'.req.fail
              /\ RequestId(resp').n \in Ids(jobs)) =>
             /\ GetJobApplication(jobs', RequestId(resp').n, FALSE).err # ""
             /\ Cardinality(jobs') = Cardinality(jobs) - 1
             /\ jobs' \subseteq jobs
             /\ \A r \in jobs : r.id # RequestId(resp').n => r \in jobs'
      ]_vars

\* The record with identifier 2 was deleted and the record with identifier 1
\* is still stored
C19_Witness ==
    /\ resp.op = "delete"
    /\ resp.code = 303
    /\ ~resp.req.fail
    /\ RequestId(resp).ok
    /\ RequestId(resp).n = 2
    /\ seq = 2
    /\ Ids(jobs) = {1}

\* The identifiers of a run that are not stored: deleted or never assigned
Missing(js) == (1..(MaxId + 1)) \ Ids(js)

\* C20: a fetch and an update of an identifier that is not stored (never
\* assigned, or deleted) return an error, and the update leaves the store as
\* it is: it creates no record.
C20_MissingIdIsAnError ==
    [][ /\ \A id \in Missing(jobs) :
             /\ GetJobApplication(jobs, id, FALSE).err # ""
             /\ \A form \in {f \in Forms : FormDate[f.date_applied].ok} :
                  LET job == [id |-> id] @@ [form EXCEPT !.date_applied = DateOf(FormDate[form.date_applied])]
                      res == UpdateJobApplication(jobs, now, job, FALSE)
                  IN  res.err # "" /\ res.jobs = jobs
        /\ (resp'.op = "update" /\ RequestId(resp').ok /\ RequestId(resp').n \notin Ids(jobs)) =>
             (resp'.code # 303 /\ jobs' = jobs /\ seq' = seq)
        /\ (resp'.op = "edit" /\ RequestId(resp').ok /\ RequestId(resp').n \notin Ids(jobs)) =>
             resp'.code # 200
      ]_vars

\* An update of identifier 1, which was assigned and deleted, was answered
\* with an error while another record is stored
C20_Witness ==
    /\ resp.op = "update"
    /\ resp.code = 500
    /\ ~resp.req.fail
    /\ RequestId(resp).n = 1
    /\ seq = 2
    /\ Ids(jobs) = {2}

\* The statuses a client may look up in the statistics: the stored ones, the
\* common ones and the empty one
KnownStatuses(js) ==
    {r.status : r \in js} \cup {GetCommonStatuses[i] : i \in 1..Len(GetCommonStatuses)} \cup {<<>>}

\* C21: GET /api/stats answers an object that holds, for each status some
\* stored record has, the number of stored records with that status, and no
\* entry for a status no stored record has; on an empty store it is empty.
C21_StatsObject ==
    (resp.op = "stats" /\ resp.code = 200) =>
        /\ \A s \in KnownStatuses(jobs) :
             IF \E r \in jobs : r.status = s
             THEN s \in DOMAIN resp.body /\ resp.body[s] = Cardinality({r \in jobs : r.status = s})
             ELSE s \notin DOMAIN resp.body
        /\ DOMAIN resp.body \subseteq {r.status : r \in jobs}
        /\ jobs = {} => DOMAIN resp.body = {}

\* The statistics of a store with two records, both with the status
\* Interview, were served: one entry, and none for Applied
C21_Witness ==
    /\ resp.op = "stats"
    /\ resp.code = 200
    /\ Cardinality(jobs) = 2
    /\ DOMAIN resp.body = {<<"I", "n", "t", "e", "r", "v", "i", "e", "w">>}
    /\ resp.body[<<"I", "n", "t", "e", "r", "v", "i", "e", "w">>] = 2

\* The request paths of create, update, delete and CSV processing
WritePaths ==
    {path \in Paths : \E template \in {<<"/", "c", "r", "e", "a", "t", "e">>, <<"/", "u", "p", "d", "a", "t", "e", "/", "{", "i", "d", "}">>, <<"/", "d", "e", "l", "e", "t", "e", "/", "{", "i", "d", "}">>, <<"/", "p", "r", "o", "c", "e", "s", "s", "-", "c", "s", "v">>} :
                          MatchPath(template, path)}

\* The kind of response each handler of the route table writes, the router's
\* own answer under the empty name
HandlerOp ==
    [handler \in {"", "HomeHandler", "AddJobHandler", "CreateJobHandler", "EditJobHandler",
                  "UpdateJobHandler", "DeleteJobHandler", "FilterHandler", "ImportCSVHandler",
                  "ProcessCSVHandler", "StatsHandler", "health", "static"} |->
        CASE handler = "" -> "router"
          [] handler = "HomeHandler" -> "home"
          [] handler = "AddJobHandler" -> "add"
          [] handler = "CreateJobHandler" -> "create"
          [] handler = "EditJobHandler" -> "edit"
          [] handler = "UpdateJobHandler" -> "update"
          [] handler = "DeleteJobHandler" -> "delete"
          [] handler = "FilterHandler" -> "filter"
          [] handler = "ImportCSVHandler" -> "import-csv"
          [] handler = "ProcessCSVHandler" -> "process-csv"
          [] handler = "StatsHandler" -> "stats"
          [] handler = "health" -> "health"
          [] handler = "static" -> "static"]

\* The step answers a request of this method and path: the response is of
\* the kind that the handler the router chose writes (every step of Serve
\* for the request is such a step)
Served(method, path) ==
    /\ resp.op = "none"
    /\ resp'.op = HandlerOp[RouteOf[<<method, path>>].handler]
    /\ resp'.op = "router" => (resp'.req.method = method /\ resp'.req.path = path)

\* C22: only POST requests change the store. Create, update, delete and CSV
\* processing are routed for POST only; a request with another method on
\* their paths is answered 405 and runs no handler; and a request with a
\* method other than POST, on any path, leaves every record and the
\* identifier counter as they were, so a step that changes the store answers
\* a POST on one of those paths.
C22_OnlyPostChangesStore ==
    [][ /\ \A method \in Methods : \A path \in WritePaths :
             (RouteOf[<<method, path>>].handler # "") <=> (method = "POST")
        /\ \A method \in Methods \ {"POST"} : \A path \in Paths :
             Served(method, path) =>
                 /\ jobs' = jobs
                 /\ seq' = seq
                 /\ path \in WritePaths => (resp'.op = "router" /\ resp'.code = 405)
        /\ (jobs' # jobs \/ seq' # seq) => \E path \in WritePaths : Served("POST", path) ]_vars

\* GET /create was answered 405 by the router, in a store that holds a record
C22_Witness ==
    /\ resp.op = "router"
    /\ resp.code = 405
    /\ resp.req.method = "GET"
    /\ resp.req.path = <<"/", "c", "r", "e", "a", "t", "e">>
    /\ jobs # {}

C24_EmptyStatusFilter ==
    /\ \A rows \in GetJobApplicationsByStatus(jobs, <<>>) :
          /\ {rows[i] : i \in 1..Len(rows)} = {r \in jobs : r.status = <<>>}
          /\ Len(rows) = Cardinality({r \in jobs : r.status = <<>>})
    /\ (resp.op = "filter" /\ resp.code = 200 /\ resp.req.status = <<>>) =>
          /\ resp.body.Jobs \in GetAllJobApplications(jobs)
          /\ {resp.body.Jobs[i] : i \in 1..Len(resp.body.Jobs)} = jobs
    /\ (resp.op = "home" /\ resp.code = 200) =>
          resp.body.Jobs \in GetAllJobApplications(jobs)

\* The filter page with an empty status listed two records, none of which
\* has an empty status, where the store-level filter returns no record
C24_Witness ==
    /\ resp.op = "filter"
    /\ resp.code = 200
    /\ resp.req.status = <<>>
    /\ Len(resp.body.Jobs) = 2
    /\ \A r \in jobs : r.status # <<>>
    /\ GetJobApplicationsByStatus(jobs, <<>>) = {<<>>}

\* C25: an import is append-only and not transactional. When it finishes,
\* the number of stored records has grown by exactly the reported success
\* count, every new record holds the fields of a row of the file that parses
\* and that the store took, and every record stored before the import is
\* still stored unchanged, whatever rows failed; an import that is refused
\* (400) stores nothing.
C25_ImportAppendOnly ==
    [][ resp'.op = "process-csv" =>
            /\ jobs \subseteq jobs'
            /\ resp'.code = 200 =>
                 /\ Cardinality(jobs') = Cardinality(jobs) + resp'.body.SuccessCount
                 /\ \A r \in jobs' \ jobs :
                      \E i \in ImportGood(resp') :
                          /\ Fields(r) = RecordJob[ImportRecords(resp')[i]].job
                          /\ r.id > seq
            /\ resp'.code # 200 => jobs' = jobs
      ]_vars

\* An import into a store that held a record reported a success and an
\* error: the good row is stored although another row failed
C25_Witness ==
    /\ resp.op = "process-csv"
    /\ resp.code = 200
    /\ resp.body.SuccessCount = 1
    /\ resp.body.ErrorCount >= 1
    /\ Cardinality(jobs) = 2

\* The records of an import request that the loop skips as empty
ImportSkipped(rsp) ==
    {i \in ImportFirst(rsp)..Len(ImportRecords(rsp)) :
        \/ Len(ImportRecords(rsp)[i]) = 0
        \/ Len(ImportRecords(rsp)[i]) = 1 /\ TrimSpace(ImportRecords(rsp)[i][1]) = <<>>}

\* C26: in every import result the success count, the error count and the
\* number of skipped empty rows add up to the reported total of rows, which is
\* the number of records minus the header row if one was detected, and there
\* are as many error messages as the error count says.
C26_ImportTally ==
    (resp.op = "process-csv" /\ resp.code = 200) =>
        /\ resp.body.SuccessCount + resp.body.ErrorCount + Cardinality(ImportSkipped(resp))
             = resp.body.TotalRows
        /\ resp.body.TotalRows = Len(ImportRecords(resp)) - (ImportFirst(resp) - 1)
        /\ Len(resp.body.Errors) = resp.body.ErrorCount

\* An import of two records, one skipped as empty and one rejected
C26_Witness ==
    /\ resp.op = "process-csv"
    /\ resp.code = 200
    /\ resp.body.TotalRows = 2
    /\ resp.body.ErrorCount = 1
    /\ Cardinality(ImportSkipped(resp)) = 1

\* The rows of an import request, the first included, that parseCSVRecord
\* accepts and whose INSERT the store takes
Importable(rsp) ==
    {i \in 1..Len(ImportRecords(rsp)) :
        RecordJob[ImportRecords(rsp)[i]].ok /\ (i - 1) \notin rsp.req.failRows}

\* C27: header detection never drops importable data. Only the first record
\* of a file is left out as a header: the total of rows is the number of
\* records, less one exactly when isHeaderRow holds of the first record, and a
\* later record that isHeaderRow holds of is handled as data and reported as
\* an error. A record that isHeaderRow classifies as a header is one that
\* parseCSVRecord rejects, so every row of the file, the first included, that
\* parses and that the store takes is stored.
C27_HeaderDropsNoData ==
    [][ (resp'.op = "process-csv" /\ resp'.code = 200) =>
            LET recs == ImportRecords(resp')
            IN  /\ resp'.body.TotalRows = Len(recs) - (IF isHeaderRow(recs[1]) THEN 1 ELSE 0)
                /\ \A i \in 1..Len(recs) : isHeaderRow(recs[i]) => ~RecordJob[recs[i]].ok
                /\ \A i \in 2..Len(recs) :
                     isHeaderRow(recs[i]) =>
                         \E k \in 1..Len(resp'.body.Errors) : resp'.body.Errors[k].row = i
                /\ resp'.body.SuccessCount = Cardinality(Importable(resp'))
                /\ Cardinality(jobs' \ jobs) = Cardinality(Importable(resp'))
                /\ \A i \in Importable(resp') :
                     \E r \in jobs' \ jobs : Fields(r) = RecordJob[recs[i]].job
      ]_vars

\* An upload whose first record was left out as a header, for a keyword
\* inside a word, and whose data row was imported
C27_Witness ==
    /\ resp.op = "process-csv"
    /\ resp.code = 200
    /\ isHeaderRow(ImportRecords(resp)[1])
    /\ TrimSpace(ImportRecords(resp)[1][1]) = <<"U", "p", "d", "a", "t", "e", " ", "2", "0", "2", "4">>
    /\ resp.body.TotalRows = 1
    /\ resp.body.SuccessCount = 1

\* C28 as claimed: for an input that names a month, with a day and a year,
\* parseDate either fails or returns the day, the named month and the year
\* that are written, also when the named month has no such day.
C28_NamedMonthKept ==
    resp.op = "parseDate" =>
        \A month \in 1..12 : \A day \in MonthDays :
            resp.req.dateStr \in MonthNamed(day, month) =>
                (~resp.body.ok \/ DateOf(resp.body) = [y |-> 2024, m |-> month, d |-> day])

\* C29 as claimed: every home page and filter page shows consistent data,
\* also when create, delete or import requests run at the same time: the
\* status counts shown add up to the total shown and, on a page without a
\* status filter, both equal the number of jobs listed (pages none of whose
\* queries failed).
C29_PagesConsistent ==
    \A c \in Conns :
        (resp[c].op \in {"home", "filter"} /\ resp[c].code = 200 /\ ~resp[c].req.failed) =>
            /\ SumOver(resp[c].body.StatusCounts, DOMAIN resp[c].body.StatusCounts)
                 = resp[c].body.TotalCount
            /\ resp[c].req.status = <<>> => resp[c].body.TotalCount = Len(resp[c].body.Jobs)

\* The step is a create, an import of a row or a delete that connection c
\* reports as done
Created(c) ==
    resp[c].op = "none" /\ resp'[c].op = "create" /\ resp'[c].code = 303

Imported(c) ==
    /\ resp[c].op = "process-csv" /\ resp[c].code = 0
    /\ resp'[c].op = "process-csv"
    /\ resp'[c].body.SuccessCount = resp[c].body.SuccessCount + 1

Deleted(c) ==
    /\ resp[c].op = "none" /\ resp'[c].op = "delete" /\ resp'[c].code = 303
    /\ resp'[c].loc = <<"/", "?", "s", "u", "c", "c", "e", "s", "s", "=", "d", "e", "l", "e", "t", "e", "d">>

\* The identifiers a connection's request in flight, or its response, holds
\* as given to its own rows
OwnIds(rsp) ==
    IF rsp.op = "process-csv" /\ rsp.code \in {0, 200} THEN rsp.req.ids
    ELSE IF rsp.op = "create" /\ rsp.code = 303 THEN {rsp.req.id}
    ELSE {}

\* C30: when write requests interleave, no insert is lost and no identifier
\* is assigned twice. A create or an imported row that is reported as a
\* success adds exactly one record, with the fields submitted and an
\* identifier never assigned before, and leaves every other record alone; a
\* delete reported as done removes exactly the record it names; no other
\* step changes the store, and the identifier counter advances exactly by the
\* successes reported. The stored identifiers stay distinct, two requests
\* never hold the same identifier, and an import's success count is the
\* number of rows it inserted.
C30_NoLostInsert ==
    [][ /\ UniqueIds(jobs')
        /\ \A c \in Conns :
             (Created(c) \/ Imported(c)) =>
                 \E r \in jobs' :
                     /\ r \notin jobs
                     /\ jobs' = jobs \cup {r}
                     /\ r.id > seq
                     /\ r.id = seq'
                     /\ r.id \in OwnIds(resp'[c]) \ OwnIds(resp[c])
                     /\ \A d \in Conns \ {c} : r.id \notin OwnIds(resp'[d])
        /\ \A c \in Conns :
             Deleted(c) =>
                 /\ jobs' = {r \in jobs : r.id # SegmentId[resp'[c].req.id].n}
                 /\ Cardinality(jobs') = Cardinality(jobs) - 1
                 /\ seq' = seq
        /\ (\A c \in Conns : ~Created(c) /\ ~Imported(c) /\ ~Deleted(c)) =>
               (jobs' = jobs /\ seq' = seq)
        /\ \A c \in Conns :
             (resp'[c].op = "process-csv" /\ resp'[c].code \in {0, 200}) =>
                 /\ resp'[c].body.SuccessCount = Cardinality(resp'[c].req.ids)
                 /\ resp'[c].req.ids \subseteq 1..seq'
        /\ \A c \in Conns : \A d \in Conns \ {c} : OwnIds(resp'[c]) \cap OwnIds(resp'[d]) = {}
      ]_vars

\* A create on one connection received identifier 2 while an import on the
\* other, which had inserted the row with identifier 1, was still in its loop
C30_Witness ==
    \E c \in Conns : \E d \in Conns \ {c} :
        /\ resp[c].op = "process-csv"
        /\ resp[c].code = 0
        /\ resp[c].req.ids = {1}
        /\ resp[d].op = "create"
        /\ resp[d].code = 303
        /\ resp[d].req.id = 2
        /\ Ids(jobs) = {1, 2}

====
